---- MODULE Spec2Model ----
(***************************************************************************)
(* The chained hash table of dict.c / dict.h, with the hash table type     *)
(* dictTypeHeapStringCopyKeyValue (string keys hashed by                   *)
(* dictGenHashFunction, compared by strcmp, key and value destructors      *)
(* configured).  Entries live in a heap `mem` of dictEntry records linked  *)
(* by `next`; the table is the array of bucket heads.                      *)
(*                                                                         *)
(* The event loop of ae.c / ae.h: the list of file events, the list of     *)
(* time events, and one activation of aeProcessEvents at a time, which is  *)
(* suspended while a callback of the application runs.  A callback is any  *)
(* short sequence of calls of the library followed by a return.            *)
(***************************************************************************)
EXTENDS Integers, Sequences, FiniteSets, TLC

\* ---------------------------------------------------------------- bounds
\* number of distinct keys the callers of the main specification use
NumKeys == 4
\* largest size a caller requests from dictExpand
MaxExpand == 8
\* number of distinct keys inserted by the insert-only specification
NumGrowKeys == 5

\* time events created on the event loop, over its whole life
MaxTimers == 2
\* file events created on the event loop, over its whole life
MaxFileEvents == 2
\* calls of the library made by one callback before it returns
MaxCalls == 1
\* advances of the clock, of 50 milliseconds each
MaxTicks == 2
\* bits of a value of random(), which returns 0 .. 2^RandBits - 1
RandBits == 4
\* time-event callbacks of one pass that are counted; further ones leave the
\* count where it is
MaxFirings == 6
\* the longest string sdscatlen is asked to build
MaxSdsLen == 6
\* file events registered by the callbacks of SpecSpawn, beyond MaxFileEvents
MaxSpawned == 1

\* ------------------------------------------------------- program constants
NULL == 0
DICT_OK == 0
DICT_ERR == 1
DICT_HT_INITIAL_SIZE == 4
AE_OK == 0
AE_ERR == -1
AE_READABLE == 1
AE_WRITABLE == 2
AE_FILE_EVENTS == 1
AE_TIME_EVENTS == 2
AE_ALL_EVENTS == 3
AE_DONT_WAIT == 4
AE_NOMORE == -1

\* ----------------------------------------------------------------- inputs
\* Keys are C strings, written as the sequence of their bytes.  With
\* dictGenHashFunction "a", "e", "i" share a bucket of a 4-slot table, "a" and
\* "i" share one of an 8-slot table, and all are apart in a 16-slot table.
KeyPool == << <<97>>, <<101>>, <<105>>, <<98>>, <<102>>, <<99>>, <<109>> >>
Keys == { KeyPool[i] : i \in 1..NumKeys }
GrowKeys == { KeyPool[i] : i \in 1..NumGrowKeys }
\* Values are C strings too; the table never looks inside them.
Vals == {"x", "y"}
\* addresses malloc hands out for dictEntry structures: one per key of the
\* pool and two more
Addr == 1..(Len(KeyPool) + 2)

VARIABLES
    ht,        \* the dict: table (bucket heads), size, sizemask, used
    mem,       \* the heap of dictEntry structures: address -> [key, val, next]
    last,      \* the function that returned last to the application, and what
               \* it returned (of the event loop, aeMain only)
    freed,     \* the destructor calls made by the last call, in order
    iter,      \* the dictIterator, or NoIter when none is allocated
    snapshot,  \* the entries that were in the table when iter was created
    yielded,   \* the entries dictNext has returned for iter, in order
    eventLoop, \* the aeEventLoop: the two lists, the id counter, the stop flag
    clock,     \* what gettimeofday returns, in milliseconds
    frame,     \* the activation of aeProcessEvents / aeMain, its locals
    fileLog,   \* per file event ever created: its finalizer and the calls of it
    timerLog,  \* per time event ever created: its finalizer, the calls of it,
               \* and whether its callback has returned AE_NOMORE
    trace,     \* the callbacks invoked by the dispatch pass in progress
    sds        \* the dynamic string: the header fields len and free, the
               \* bytes malloc gave to buf besides the terminator, the len
               \* bytes of buf, and whether bytes were written past the block

dictVars == <<ht, mem, freed>>
iterVars == <<iter, snapshot, yielded>>
aeVars == <<eventLoop, clock, frame, fileLog, timerLog, trace>>
vars == <<ht, mem, last, freed, iter, snapshot, yielded,
          eventLoop, clock, frame, fileLog, timerLog, trace, sds>>

NoIter == [index |-> -1, entry |-> NULL, nextEntry |-> NULL, ht |-> NULL]

\* ------------------------------------------------------------ arithmetic
RECURSIVE BitAnd(_, _)
\* a & b on non-negative integers
BitAnd(a, b) ==
    IF a = 0 \/ b = 0 THEN 0
    ELSE (a % 2) * (b % 2) + 2 * BitAnd(a \div 2, b \div 2)

RECURSIVE dictGenHashFunction(_, _)
\* hash = 5381; while (len--) hash = ((hash << 5) + hash) + (*buf++);
\* over the first len bytes of buf.  The keys used here have at most three
\* bytes, for which the value stays below 2^31: unsigned int never wraps.
dictGenHashFunction(buf, len) ==
    IF len = 0 THEN 5381
    ELSE LET hash == dictGenHashFunction(buf, len - 1)
         IN  ((hash * 32) + hash) + buf[len]

\* _dictStringCopyHTHashFunction, the hashFunction of the type
dictHashKey(key) == dictGenHashFunction(key, Len(key))

\* mutant of dictCompareHashKeys: strcmp's result returned as it is, which
\* is non-zero when the keys differ
dictCompareHashKeys_strcmp(key1, key2) == key1 # key2

\* mutant of dictCompareHashKeys: no keyCompare configured, the pointers are
\* compared, and the caller's key is never the table's copy
dictCompareHashKeys_ptr(key1, key2) == FALSE

\* _dictStringCopyHTKeyCompare: strcmp(key1, key2) == 0
dictCompareHashKeys(key1, key2) == key1 = key2

RECURSIVE NextPowerFrom(_, _)
NextPowerFrom(i, size) == IF i >= size THEN i ELSE NextPowerFrom(i * 2, size)

\* mutant of _dictNextPower: the loop stops at i > size
_dictNextPower_strict(size) ==
    IF DICT_HT_INITIAL_SIZE > size THEN DICT_HT_INITIAL_SIZE
    ELSE NextPowerFrom(DICT_HT_INITIAL_SIZE, size + 1)

\* the first power of two, starting at DICT_HT_INITIAL_SIZE, that is >= size
\* (requests stay far below LONG_MAX)
_dictNextPower(size) == NextPowerFrom(DICT_HT_INITIAL_SIZE, size)

\* ------------------------------------------------------------------ heap
\* malloc(sizeof(dictEntry)) for an entry that will hold key: some address
\* not in use.  Addresses are opaque to the table, so the block is named after
\* the key's place in the pool when that block is free, and is the lowest
\* free block otherwise.
Alloc(m, key) ==
    LET own == CHOOSE i \in 1..Len(KeyPool) : KeyPool[i] = key
    IN  IF own \notin DOMAIN m THEN own
        ELSE CHOOSE a \in Addr \ DOMAIN m : \A b \in Addr \ DOMAIN m : a <= b

\* free(p): the address leaves the heap
Free(m, p) == [a \in (DOMAIN m) \ {p} |-> m[a]]

\* a fresh dictEntry at address a
Store(m, a, e) == [b \in (DOMAIN m) \cup {a} |-> IF b = a THEN e ELSE m[b]]

\* ------------------------------------------------------------- the table
\* _dictReset: table = NULL, size = sizemask = used = 0
_dictReset == [table |-> << >>, size |-> 0, sizemask |-> 0, used |-> 0]

\* aeCreateEventLoop: both lists empty, timeEventNextId = 0, stop = 0.  A
\* list is the sequence of its nodes, the head first.
aeCreateEventLoop ==
    [fileEventHead |-> << >>, timeEventHead |-> << >>,
     timeEventNextId |-> 0, stop |-> 0]

\* no activation of aeProcessEvents: the application is between two calls
NoFrame ==
    [pc |-> "idle", main |-> FALSE, flags |-> 0, rfds |-> {}, wfds |-> {},
     tvp |-> [null |-> TRUE, tv_sec |-> 0, tv_usec |-> 0], since |-> 0,
     processed |-> 0, fe |-> NULL, te |-> NULL, maxId |-> -1,
     fd |-> 0, id |-> -1, calls |-> 0, reuse |-> {}]

\* nothing invoked yet by the pass
NoTrace == [files |-> << >>, timers |-> 0, born |-> {}, ready |-> {},
            dirty |-> FALSE]

\* no string has been created yet
NoSds == [len |-> 0, free |-> 0, alloc |-> -1, buf |-> << >>,
          overrun |-> FALSE]

Init ==
    /\ ht = _dictReset
    /\ mem = << >>
    /\ last = [op |-> "dictCreate", ret |-> DICT_OK]
    /\ freed = << >>
    /\ iter = NoIter
    /\ snapshot = {}
    /\ yielded = << >>
    /\ eventLoop = aeCreateEventLoop
    /\ clock = 950
    /\ frame = NoFrame
    /\ fileLog = << >>
    /\ timerLog = << >>
    /\ trace = NoTrace
    /\ sds = NoSds

\* dictSetHashKey / dictSetHashVal with _dictStringCopyHTKeyDup and
\* _dictStringKeyValCopyHTValDup: the entry holds a copy of the bytes
keyDup(key) == [i \in 1..Len(key) |-> key[i]]
valDup(val) == val

\* mutant of dictFreeEntryVal: the value destructor is not called
dictFreeEntryVal_none(log, m, he) == log

\* mutant of dictFreeEntryKey: the key destructor is not called
dictFreeEntryKey_none(log, m, he) == log

\* dictFreeEntryKey / dictFreeEntryVal: one call of the configured destructor,
\* appended to the log of destructor calls
dictFreeEntryKey(log, m, he) == Append(log, <<"key", m[he].key>>)
dictFreeEntryVal(log, m, he) == Append(log, <<"val", m[he].val>>)

\* mutant of BucketOf: the remainder by the mask instead of the bitwise and
BucketOf_mod(key, sizemask) == dictHashKey(key) % sizemask

\* the bucket of a key: dictHashKey(ht, key) & sizemask
BucketOf(key, sizemask) == BitAnd(dictHashKey(key), sizemask)

RECURSIVE RehashChain(_, _, _)
\* dictExpand's while(he) loop: move the chain starting at he into the new
\* table n.table by head insertion, decrementing the old used counter n.used
\* per entry.  n = [table, mem, used, sizemask].
RehashChain(he, nextHe, n) ==
    IF he = NULL THEN n
    ELSE RehashChain(nextHe,
                     IF nextHe = NULL THEN NULL ELSE n.mem[nextHe].next,
                     [n EXCEPT
                        !.table[BucketOf(n.mem[he].key, n.sizemask)] = he,
                        !.mem[he].next =
                            n.table[BucketOf(n.mem[he].key, n.sizemask)],
                        !.used = @ - 1])

RECURSIVE RehashBuckets(_, _, _)
\* dictExpand's for loop: for (i = 0; i < ht->size && ht->used > 0; i++)
RehashBuckets(i, d, n) ==
    IF ~(i < d.size /\ n.used > 0) THEN n
    ELSE IF d.table[i] = NULL THEN RehashBuckets(i + 1, d, n)
    ELSE RehashBuckets(i + 1, d,
                       RehashChain(d.table[i], n.mem[d.table[i]].next, n))

\* mutant of ExpandInvalid: the guard compares the rounded size
ExpandInvalid_rounded(d, size) == d.used > _dictNextPower(size)

\* dictExpand's guard: the size is invalid if it is smaller than the number
\* of elements already inside the hashtable
ExpandInvalid(d, size) == d.used > size

\* mutant of Remap: n.used = ht->used is missing, n.used stays 0
Remap_lostUsed(d, n, realsize) ==
    [ret |-> DICT_OK,
     ht |-> [table |-> n.table, size |-> realsize,
             sizemask |-> realsize - 1, used |-> 0],
     mem |-> n.mem,
     assert |-> (n.used = 0)]

\* the end of dictExpand: *ht = n, with n.used the count saved before the
\* loop; assert tells whether assert(ht->used == 0) held
Remap(d, n, realsize) ==
    [ret |-> DICT_OK,
     ht |-> [table |-> n.table, size |-> realsize,
             sizemask |-> realsize - 1, used |-> d.used],
     mem |-> n.mem,
     assert |-> (n.used = 0)]

\* dictExpand(ht, size) on table d with heap m: the result, the table and the
\* heap afterwards
dictExpand(d, m, size) ==
    IF ExpandInvalid(d, size)
    THEN [ret |-> DICT_ERR, ht |-> d, mem |-> m, assert |-> TRUE]
    ELSE Remap(d,
               RehashBuckets(0, d,
                   [table |-> [i \in 0..(_dictNextPower(size) - 1) |-> NULL],
                    mem |-> m, used |-> d.used,
                    sizemask |-> _dictNextPower(size) - 1]),
               _dictNextPower(size))

\* mutant of dictResize: the present size is asked for instead of the number
\* of entries
dictResize_keepSize(d, m) == dictExpand(d, m, d.size)

\* dictResize: expand to max(used, DICT_HT_INITIAL_SIZE)
dictResize(d, m) ==
    dictExpand(d, m, IF d.used < DICT_HT_INITIAL_SIZE
                     THEN DICT_HT_INITIAL_SIZE ELSE d.used)

\* mutant of _dictExpandIfNeeded: a full table is not doubled
_dictExpandIfNeeded_nodouble(d, m) ==
    IF d.size = 0 THEN dictExpand(d, m, DICT_HT_INITIAL_SIZE)
    ELSE [ret |-> DICT_OK, ht |-> d, mem |-> m, assert |-> TRUE]

\* _dictExpandIfNeeded: an empty table grows to the initial size, a full one
\* doubles
_dictExpandIfNeeded(d, m) ==
    IF d.size = 0 THEN dictExpand(d, m, DICT_HT_INITIAL_SIZE)
    ELSE IF d.used = d.size THEN dictExpand(d, m, d.size * 2)
    ELSE [ret |-> DICT_OK, ht |-> d, mem |-> m, assert |-> TRUE]

\* mutant of ChainFind: only the first entry of the chain is compared
ChainFind_headOnly(he, m, key) ==
    IF he = NULL THEN NULL
    ELSE IF dictCompareHashKeys(key, m[he].key) THEN he
    ELSE NULL

RECURSIVE ChainFind(_, _, _)
\* the while(he) search loop shared by _dictKeyIndex and dictFind: the first
\* entry of the chain from he whose key compares equal to key, or NULL
ChainFind(he, m, key) ==
    IF he = NULL THEN NULL
    ELSE IF dictCompareHashKeys(key, m[he].key) THEN he
    ELSE ChainFind(m[he].next, m, key)

\* _dictKeyIndex after the expansion e: the bucket of key, or -1 if the key
\* is already in that bucket's chain (or the expansion failed)
KeyIndexIn(e, key) ==
    [index |-> IF e.ret = DICT_ERR THEN -1
               ELSE IF ChainFind(e.ht.table[BucketOf(key, e.ht.sizemask)],
                                 e.mem, key) # NULL
               THEN -1
               ELSE BucketOf(key, e.ht.sizemask),
     ht |-> e.ht, mem |-> e.mem]

\* _dictKeyIndex: expand the table if needed, then look for the key
_dictKeyIndex(d, m, key) == KeyIndexIn(_dictExpandIfNeeded(d, m), key)

\* mutant of AddEntry: used is not incremented
AddEntry_noCount(k, key, val) ==
    IF k.index = -1 THEN [ret |-> DICT_ERR, ht |-> k.ht, mem |-> k.mem]
    ELSE [ret |-> DICT_OK,
          ht |-> [k.ht EXCEPT !.table[k.index] = Alloc(k.mem, key)],
          mem |-> Store(k.mem, Alloc(k.mem, key),
                        [key |-> keyDup(key), val |-> valDup(val),
                         next |-> k.ht.table[k.index]])]

\* dictAdd once _dictKeyIndex has returned k: a new entry at the head of the
\* key's bucket, used + 1
AddEntry(k, key, val) ==
    IF k.index = -1 THEN [ret |-> DICT_ERR, ht |-> k.ht, mem |-> k.mem]
    ELSE [ret |-> DICT_OK,
          ht |-> [k.ht EXCEPT !.table[k.index] = Alloc(k.mem, key),
                              !.used = @ + 1],
          mem |-> Store(k.mem, Alloc(k.mem, key),
                        [key |-> keyDup(key), val |-> valDup(val),
                         next |-> k.ht.table[k.index]])]

\* dictAdd: add an element to the target hash table
dictAdd(d, m, key, val) ==
    AddEntry(_dictKeyIndex(d, m, key), key, val)

\* dictFind: the entry holding key, or NULL
dictFind(d, m, key) ==
    IF d.size = 0 THEN NULL
    ELSE ChainFind(d.table[BucketOf(key, d.sizemask)], m, key)

\* dictReplace once dictAdd has returned a: if the key exists, free the old
\* value of its entry and set the new one
ReplaceVal(a, entry, val) ==
    IF a.ret = DICT_OK
    THEN [ret |-> DICT_OK, ht |-> a.ht, mem |-> a.mem, freed |-> << >>]
    ELSE [ret |-> DICT_OK, ht |-> a.ht,
          mem |-> [a.mem EXCEPT ![entry].val = valDup(val)],
          freed |-> dictFreeEntryVal(<< >>, a.mem, entry)]

\* dictReplace once dictAdd has returned a: entry = dictFind(ht, key)
ReplaceIn(a, key, val) == ReplaceVal(a, dictFind(a.ht, a.mem, key), val)

\* dictReplace: add an element, discarding the old if the key already exists
dictReplace(d, m, key, val) == ReplaceIn(dictAdd(d, m, key, val), key, val)

\* mutant of Unlink: the bucket head is set to he->next whatever prevHe is
Unlink_headOnly(d, m, nofree, h, he, prevHe) ==
    [ret |-> DICT_OK,
     ht |-> [d EXCEPT !.table[h] = m[he].next, !.used = @ - 1],
     mem |-> Free(m, he),
     freed |-> IF nofree THEN << >>
               ELSE dictFreeEntryVal(dictFreeEntryKey(<< >>, m, he), m, he)]

\* dictGenericDelete, the entry he found: unlink it from the chain of bucket
\* h, call the destructors unless nofree, free it, used - 1
Unlink(d, m, nofree, h, he, prevHe) ==
    [ret |-> DICT_OK,
     ht |-> [d EXCEPT !.table = IF prevHe # NULL THEN d.table
                                ELSE [d.table EXCEPT ![h] = m[he].next],
                      !.used = @ - 1],
     mem |-> Free(IF prevHe # NULL
                  THEN [m EXCEPT ![prevHe].next = m[he].next] ELSE m, he),
     freed |-> IF nofree THEN << >>
               ELSE dictFreeEntryVal(dictFreeEntryKey(<< >>, m, he), m, he)]

RECURSIVE DeleteWalk(_, _, _, _, _, _, _)
\* dictGenericDelete's while(he) loop over the chain of bucket h
DeleteWalk(d, m, key, nofree, h, he, prevHe) ==
    IF he = NULL
    THEN [ret |-> DICT_ERR, ht |-> d, mem |-> m, freed |-> << >>]
    ELSE IF dictCompareHashKeys(key, m[he].key)
    THEN Unlink(d, m, nofree, h, he, prevHe)
    ELSE DeleteWalk(d, m, key, nofree, h, m[he].next, he)

\* dictGenericDelete: search and remove an element
dictGenericDelete(d, m, key, nofree) ==
    IF d.size = 0
    THEN [ret |-> DICT_ERR, ht |-> d, mem |-> m, freed |-> << >>]
    ELSE DeleteWalk(d, m, key, nofree, BucketOf(key, d.sizemask),
                    d.table[BucketOf(key, d.sizemask)], NULL)

RECURSIVE ClearChain(_, _)
\* _dictClear's while(he) loop: destroy key and value, free the entry.
\* c = [mem, used, freed].
ClearChain(he, c) ==
    IF he = NULL THEN c
    ELSE ClearChain(c.mem[he].next,
                    [mem |-> Free(c.mem, he), used |-> c.used - 1,
                     freed |-> dictFreeEntryVal(
                                   dictFreeEntryKey(c.freed, c.mem, he),
                                   c.mem, he)])

RECURSIVE ClearBuckets(_, _, _)
\* _dictClear's for loop: for (i = 0; i < ht->size && ht->used > 0; i++)
ClearBuckets(i, d, c) ==
    IF ~(i < d.size /\ c.used > 0) THEN c
    ELSE IF d.table[i] = NULL THEN ClearBuckets(i + 1, d, c)
    ELSE ClearBuckets(i + 1, d, ClearChain(d.table[i], c))

\* the end of _dictClear: the bucket array is freed and the table reset
Cleared(c) ==
    [ret |-> DICT_OK, ht |-> _dictReset, mem |-> c.mem, freed |-> c.freed]

\* _dictClear: destroy every entry, free the bucket array, reset the table
_dictClear(d, m) ==
    Cleared(ClearBuckets(0, d, [mem |-> m, used |-> d.used, freed |-> << >>]))

\* the values random() returns
RandomValues == 0..(2 ^ RandBits - 1)

RECURSIVE ListLen(_, _)
\* listlen = 0; while (he) { he = he->next; listlen++; }
ListLen(he, m) == IF he = NULL THEN 0 ELSE 1 + ListLen(m[he].next, m)

RECURSIVE ListEle(_, _, _)
\* while (listele--) he = he->next;
ListEle(he, m, listele) ==
    IF listele = 0 THEN he ELSE ListEle(m[he].next, m, listele - 1)

RECURSIVE EntryAt(_, _, _, _)
\* the entry n places after the head of bucket i, counting on through the
\* buckets that follow
EntryAt(d, m, i, n) ==
    IF n < ListLen(d.table[i], m) THEN ListEle(d.table[i], m, n)
    ELSE EntryAt(d, m, i + 1, n - ListLen(d.table[i], m))

\* mutant of dictGetRandomKey: one draw picks among the entries of the
\* whole table
dictGetRandomKey_perEntry(d, m, r1, r2) ==
    IF d.used = 0 THEN NULL ELSE EntryAt(d, m, 0, r1 % d.used)

\* dictGetRandomKey: NULL for a table with no entry; else r1 is the value of
\* random() that ended the loop do { h = random() & sizemask; } while
\* (table[h] == NULL), r2 the value drawn after that, and the entry returned
\* is r2 % listlen places down the chain of bucket h
dictGetRandomKey(d, m, r1, r2) ==
    IF d.used = 0 THEN NULL
    ELSE ListEle(d.table[BitAnd(r1, d.sizemask)], m,
                 r2 % ListLen(d.table[BitAnd(r1, d.sizemask)], m))

\* ---------------------------------------------------------------- actions
\* what the caller saw last: the function called and its return value
Called(op, ret) == [op |-> op, ret |-> ret]

DictAdd(key, val) ==
    \E r \in {dictAdd(ht, mem, key, val)} :
        /\ ht' = r.ht
        /\ mem' = r.mem
        /\ freed' = << >>
        /\ last' = Called("dictAdd", r.ret)
        /\ UNCHANGED <<sds, iterVars, aeVars>>

DictReplace(key, val) ==
    \E r \in {dictReplace(ht, mem, key, val)} :
        /\ ht' = r.ht
        /\ mem' = r.mem
        /\ freed' = r.freed
        /\ last' = Called("dictReplace", r.ret)
        /\ UNCHANGED <<sds, iterVars, aeVars>>

DictDelete(key) ==
    \E r \in {dictGenericDelete(ht, mem, key, FALSE)} :
        /\ ht' = r.ht
        /\ mem' = r.mem
        /\ freed' = r.freed
        /\ last' = Called("dictDelete", r.ret)
        /\ UNCHANGED <<sds, iterVars, aeVars>>

DictDeleteNoFree(key) ==
    \E r \in {dictGenericDelete(ht, mem, key, TRUE)} :
        /\ ht' = r.ht
        /\ mem' = r.mem
        /\ freed' = r.freed
        /\ last' = Called("dictDeleteNoFree", r.ret)
        /\ UNCHANGED <<sds, iterVars, aeVars>>

DictExpand(size) ==
    \E r \in {dictExpand(ht, mem, size)} :
        /\ ht' = r.ht
        /\ mem' = r.mem
        /\ freed' = << >>
        /\ last' = Called("dictExpand", r.ret)
        /\ UNCHANGED <<sds, iterVars, aeVars>>

DictResize ==
    \E r \in {dictResize(ht, mem)} :
        /\ ht' = r.ht
        /\ mem' = r.mem
        /\ freed' = << >>
        /\ last' = Called("dictResize", r.ret)
        /\ UNCHANGED <<sds, iterVars, aeVars>>

DictEmpty ==
    \E r \in {_dictClear(ht, mem)} :
        /\ ht' = r.ht
        /\ mem' = r.mem
        /\ freed' = r.freed
        /\ last' = Called("dictEmpty", r.ret)
        /\ UNCHANGED <<sds, iterVars, aeVars>>

\* dictGetIterator: index = -1, entry = nextEntry = NULL
dictGetIterator == [index |-> -1, entry |-> NULL, nextEntry |-> NULL, ht |-> 1]

RECURSIVE dictNext_noPrefetch(_, _, _, _)
\* mutant of dictNext: the successor is not saved when an entry is returned
\* but read from that entry at the next call, when it may have been freed
dictNext_noPrefetch(it, d, m, junk) ==
    LET it1 == IF it.entry = NULL
               THEN IF it.index + 1 >= d.size
                    THEN [it EXCEPT !.index = it.index + 1]
                    ELSE [it EXCEPT !.index = it.index + 1,
                                    !.entry = d.table[it.index + 1]]
               ELSE [it EXCEPT !.entry = IF it.entry \in DOMAIN m
                                         THEN m[it.entry].next ELSE junk]
    IN  IF it.entry = NULL /\ it.index + 1 >= d.size
        THEN [ret |-> NULL, iter |-> it1]
        ELSE IF it1.entry # NULL
        THEN [ret |-> it1.entry, iter |-> it1]
        ELSE dictNext_noPrefetch(it1, d, m, junk)

RECURSIVE dictNext(_, _, _, _)
\* dictNext on iterator it over table d with heap m: the entry returned and
\* the iterator afterwards.  Reading entry->next of an entry that has been
\* freed is undefined; junk is the value such a read produces.
dictNext(it, d, m, junk) ==
    LET it1 == IF it.entry = NULL
               THEN IF it.index + 1 >= d.size
                    THEN [it EXCEPT !.index = it.index + 1]
                    ELSE [it EXCEPT !.index = it.index + 1,
                                    !.entry = d.table[it.index + 1]]
               ELSE [it EXCEPT !.entry = it.nextEntry]
    IN  IF it.entry = NULL /\ it.index + 1 >= d.size
        THEN [ret |-> NULL, iter |-> it1]
        ELSE IF it1.entry # NULL
        THEN [ret |-> it1.entry,
              iter |-> [it1 EXCEPT !.nextEntry =
                            IF it1.entry \in DOMAIN m
                            THEN m[it1.entry].next ELSE junk]]
        ELSE dictNext(it1, d, m, junk)

RECURSIVE ChainEntries(_, _)
\* the addresses on the chain starting at he
ChainEntries(he, m) ==
    IF he = NULL THEN {} ELSE {he} \cup ChainEntries(m[he].next, m)

\* the entries reachable through the bucket chains
TableEntries(d, m) ==
    UNION { ChainEntries(d.table[i], m) : i \in DOMAIN d.table }

\* the caller asks for a random entry; the values of random() that fall on
\* an empty bucket are drawn again
DictGetRandomKey(r1, r2) ==
    /\ IF ht.used = 0 THEN TRUE
       ELSE ht.table[BitAnd(r1, ht.sizemask)] # NULL
    /\ last' = Called("dictGetRandomKey", dictGetRandomKey(ht, mem, r1, r2))
    /\ UNCHANGED <<sds, ht, mem, freed, iterVars, aeVars>>

DictGetIterator ==
    /\ iter = NoIter
    /\ iter' = dictGetIterator
    /\ snapshot' = TableEntries(ht, mem)
    /\ yielded' = << >>
    /\ last' = Called("dictGetIterator", DICT_OK)
    /\ UNCHANGED <<sds, dictVars, aeVars>>

\* the values a read of freed memory may produce
Junk == Addr \cup {NULL}

\* the caller advances the iterator until dictNext returns NULL
IterDone == iter # NoIter /\ last = Called("dictNext", NULL)

DictNext ==
    /\ iter # NoIter
    /\ ~IterDone
    /\ \E junk \in (IF iter.entry # NULL /\ iter.nextEntry # NULL
                         /\ iter.nextEntry \notin DOMAIN mem
                     THEN Junk ELSE {NULL}) :
          \E r \in {dictNext(iter, ht, mem, junk)} :
              /\ iter' = r.iter
              /\ yielded' = IF r.ret = NULL THEN yielded
                            ELSE Append(yielded, r.ret)
              /\ last' = Called("dictNext", r.ret)
    /\ UNCHANGED <<sds, dictVars, snapshot, aeVars>>

\* dictReleaseIterator: the iterator is freed
DictReleaseIterator ==
    /\ iter # NoIter
    /\ iter' = NoIter
    /\ snapshot' = {}
    /\ yielded' = << >>
    /\ last' = Called("dictReleaseIterator", DICT_OK)
    /\ UNCHANGED <<sds, dictVars, aeVars>>

\* the caller deletes the entry dictNext has just returned
DeleteYielded ==
    /\ iter # NoIter
    /\ last.op = "dictNext"
    /\ last.ret # NULL
    /\ last.ret \in DOMAIN mem
    /\ DictDelete(mem[last.ret].key)

Next ==
    \/ \E key \in Keys, val \in Vals : DictAdd(key, val)
    \/ \E key \in Keys, val \in Vals : DictReplace(key, val)
    \/ \E key \in Keys : DictDelete(key)
    \/ \E key \in Keys : DictDeleteNoFree(key)
    \/ \E size \in 0..MaxExpand : DictExpand(size)
    \/ DictResize
    \/ DictEmpty

Spec == Init /\ [][Next]_vars

\* Iteration: the table is filled and resized while no iterator exists; an
\* iterator is then advanced to the end, the caller deleting some of the
\* entries right after they are returned.
NextIter ==
    \/ /\ iter = NoIter
       /\ \/ \E key \in Keys : DictAdd(key, "x")
          \/ \E size \in 0..MaxExpand : DictExpand(size)
    \/ DictGetIterator
    \/ DictNext
    \/ DeleteYielded
    \/ DictReleaseIterator

SpecIter == Init /\ [][NextIter]_vars

\* the caller is between two advances of its iterator
Iterating == iter # NoIter /\ ~IterDone

\* Insertion during iteration: keys are inserted before the iterator is
\* created and between its advances; an insertion into a full table expands
\* it.
NextIterAdd ==
    \/ /\ iter = NoIter \/ Iterating
       /\ \E key \in Keys : DictAdd(key, "x")
    \/ DictGetIterator
    \/ DictNext
    \/ DictReleaseIterator

SpecIterAdd == Init /\ [][NextIterAdd]_vars

\* dictNext has just returned an entry that had been freed
Strayed == last.op = "dictNext" /\ last.ret # NULL /\ last.ret \notin DOMAIN mem

\* Deletion during iteration: the table is filled while no iterator exists;
\* between the advances of an iterator the caller deletes any key.  The
\* caller makes no further use of an iterator that has returned a freed
\* entry, but to release it.
NextIterDel ==
    \/ /\ iter = NoIter
       /\ \E key \in Keys : DictAdd(key, "x")
    \/ /\ Iterating
       /\ ~Strayed
       /\ \E key \in Keys : DictDelete(key)
    \/ DictGetIterator
    \/ /\ ~Strayed
       /\ DictNext
    \/ DictReleaseIterator

SpecIterDel == Init /\ [][NextIterDel]_vars

\* Insertion only: distinct keys are inserted into a fresh table.
NextGrow ==
    \E key \in GrowKeys, val \in Vals :
        /\ dictFind(ht, mem, key) = NULL
        /\ DictAdd(key, val)

SpecGrow == Init /\ [][NextGrow]_vars

\* Filling: every operation of the table, with more keys than the initial
\* size and a single value.
NextFill ==
    \/ \E key \in GrowKeys : DictAdd(key, "x")
    \/ \E key \in GrowKeys : DictReplace(key, "x")
    \/ \E key \in GrowKeys : DictDelete(key)
    \/ \E key \in GrowKeys : DictDeleteNoFree(key)
    \/ \E size \in 0..MaxExpand : DictExpand(size)
    \/ DictResize
    \/ DictEmpty

SpecFill == Init /\ [][NextFill]_vars

\* Random entries: keys are inserted and deleted, and the caller asks for a
\* random entry of the table at any time.
NextRandom ==
    \/ \E key \in Keys : DictAdd(key, "x")
    \/ \E key \in Keys : DictDelete(key)
    \/ \E r1, r2 \in RandomValues : DictGetRandomKey(r1, r2)

SpecRandom == Init /\ [][NextRandom]_vars

\* ============================================================ event loop
\* ----------------------------------------------------------------- inputs
\* the file descriptors and interest masks the application registers
Fds == {1, 2}
Masks == {AE_READABLE, AE_WRITABLE}
\* the delays, in milliseconds, the application asks for when it creates a
\* time event, and the values its time-event callbacks return
Delays == {0, 50}
Retvals == {AE_NOMORE, 50}
\* the flags the application passes to aeProcessEvents
PassFlags ==
    {0, AE_ALL_EVENTS, AE_ALL_EVENTS + AE_DONT_WAIT,
     AE_FILE_EVENTS + AE_DONT_WAIT, AE_TIME_EVENTS + AE_DONT_WAIT}
\* what the callbacks of a timer that asks to fire again at once return
ZeroRetvals == {0, AE_NOMORE}
\* delays that reach into the next second and beyond it
LongDelays == {100, 1050}
\* delays that leave time to wait, one longer than the other
WaitDelays == {50, 100}
\* the readings of the clock
ClockValues == { 950 + 50 * k : k \in 0..MaxTicks }

\* ---------------------------------------------------------------- the clock
\* aeGetTime: seconds = tv_sec, milliseconds = tv_usec / 1000
aeGetTime(c) == [sec |-> c \div 1000, ms |-> c % 1000]

\* mutant of aeAddMillisecondsToNow: the carry into the seconds is missing
aeAddMillisecondsToNow_nocarry(milliseconds, c) ==
    [sec |-> aeGetTime(c).sec + (milliseconds \div 1000),
     ms |-> aeGetTime(c).ms + (milliseconds % 1000)]

\* aeAddMillisecondsToNow(milliseconds, &sec, &ms) when the clock reads c;
\* milliseconds is not negative
aeAddMillisecondsToNow(milliseconds, c) ==
    IF aeGetTime(c).ms + (milliseconds % 1000) >= 1000
    THEN [sec |-> aeGetTime(c).sec + (milliseconds \div 1000) + 1,
          ms |-> aeGetTime(c).ms + (milliseconds % 1000) - 1000]
    ELSE [sec |-> aeGetTime(c).sec + (milliseconds \div 1000),
          ms |-> aeGetTime(c).ms + (milliseconds % 1000)]

\* mutant of TimerDue: the milliseconds are not compared
TimerDue_secOnly(te, c) == aeGetTime(c).sec >= te.when_sec

\* now_sec > when_sec || (now_sec == when_sec && now_ms >= when_ms)
TimerDue(te, c) ==
    \/ aeGetTime(c).sec > te.when_sec
    \/ aeGetTime(c).sec = te.when_sec /\ aeGetTime(c).ms >= te.when_ms

\* ---------------------------------------------------------------- the lists
\* A node is pointed to by the name of its block: a file event's block is
\* named after the clientData the application passed with it, which is
\* different for every file event; a time event's block is named id + 1.
Least(S) == CHOOSE x \in S : \A y \in S : x <= y
RemoveAt(list, i) == SubSeq(list, 1, i - 1) \o SubSeq(list, i + 1, Len(list))

ListHead(list) == IF list = << >> THEN NULL ELSE list[1].addr
\* the place in the list of the node at address p (0 when it has left it)
PlaceOf(list, p) ==
    IF \E i \in 1..Len(list) : list[i].addr = p
    THEN CHOOSE i \in 1..Len(list) : list[i].addr = p
    ELSE 0
IsLinked(list, p) == PlaceOf(list, p) # 0
\* p->next
NextOf(list, p) ==
    IF PlaceOf(list, p) = Len(list) THEN NULL
    ELSE list[PlaceOf(list, p) + 1].addr

\* aeCreateFileEvent: a new node at the head of the file events
aeCreateFileEvent(el, fd, mask, finalizerProc, clientData) ==
    [el EXCEPT !.fileEventHead =
        << [addr |-> clientData, fd |-> fd, mask |-> mask,
            finalizerProc |-> finalizerProc] >> \o @]

\* the places of the nodes aeDeleteFileEvent's test accepts
FileMatches(el, fd, mask) ==
    { i \in 1..Len(el.fileEventHead) :
        el.fileEventHead[i].fd = fd /\ el.fileEventHead[i].mask = mask }

\* mutant of aeDeleteFileEvent: the test looks at the fd only
aeDeleteFileEvent_anyMask(el, fd, mask) ==
    IF { i \in 1..Len(el.fileEventHead) : el.fileEventHead[i].fd = fd } = {}
    THEN [eventLoop |-> el, finalized |-> << >>]
    ELSE [eventLoop |->
            [el EXCEPT !.fileEventHead =
                RemoveAt(@, Least({ i \in 1..Len(el.fileEventHead) :
                                      el.fileEventHead[i].fd = fd }))],
          finalized |->
            IF el.fileEventHead[Least({ i \in 1..Len(el.fileEventHead) :
                                         el.fileEventHead[i].fd = fd })].finalizerProc
            THEN << el.fileEventHead[Least({ i \in 1..Len(el.fileEventHead) :
                                         el.fileEventHead[i].fd = fd })].addr >>
            ELSE << >>]

\* aeDeleteFileEvent: the first node with this fd and this mask is unlinked,
\* its finalizer, if it has one, called, and the node freed.  `finalized`
\* lists the nodes whose finalizer was called.
aeDeleteFileEvent(el, fd, mask) ==
    IF FileMatches(el, fd, mask) = {}
    THEN [eventLoop |-> el, finalized |-> << >>]
    ELSE [eventLoop |->
            [el EXCEPT !.fileEventHead =
                RemoveAt(@, Least(FileMatches(el, fd, mask)))],
          finalized |->
            IF el.fileEventHead[Least(FileMatches(el, fd, mask))].finalizerProc
            THEN << el.fileEventHead[Least(FileMatches(el, fd, mask))].addr >>
            ELSE << >>]

\* mutant of aeCreateTimeEvent: the id counter is not incremented
aeCreateTimeEvent_sameId(el, milliseconds, finalizerProc, c) ==
    [ret |-> el.timeEventNextId,
     eventLoop |->
        [el EXCEPT
            !.timeEventHead =
                << [addr |-> el.timeEventNextId + 1,
                    id |-> el.timeEventNextId,
                    when_sec |-> aeAddMillisecondsToNow(milliseconds, c).sec,
                    when_ms |-> aeAddMillisecondsToNow(milliseconds, c).ms,
                    finalizerProc |-> finalizerProc] >> \o @]]

\* aeCreateTimeEvent when the clock reads c: id = timeEventNextId++, the fire
\* time is now + milliseconds, the node goes to the head of the time events
aeCreateTimeEvent(el, milliseconds, finalizerProc, c) ==
    [ret |-> el.timeEventNextId,
     eventLoop |->
        [el EXCEPT
            !.timeEventNextId = @ + 1,
            !.timeEventHead =
                << [addr |-> el.timeEventNextId + 1,
                    id |-> el.timeEventNextId,
                    when_sec |-> aeAddMillisecondsToNow(milliseconds, c).sec,
                    when_ms |-> aeAddMillisecondsToNow(milliseconds, c).ms,
                    finalizerProc |-> finalizerProc] >> \o @]]

TimerMatches(el, id) ==
    { i \in 1..Len(el.timeEventHead) : el.timeEventHead[i].id = id }

\* mutant of aeDeleteTimeEvent: the node is unlinked and freed but its
\* finalizer is not called
aeDeleteTimeEvent_nofinal(el, id) ==
    IF TimerMatches(el, id) = {}
    THEN [ret |-> AE_ERR, eventLoop |-> el, finalized |-> << >>]
    ELSE [ret |-> AE_OK,
          eventLoop |->
            [el EXCEPT !.timeEventHead = RemoveAt(@, Least(TimerMatches(el, id)))],
          finalized |-> << >>]

\* mutant of aeDeleteTimeEvent: AE_OK is returned when no node has the id
aeDeleteTimeEvent_okAbsent(el, id) ==
    IF TimerMatches(el, id) = {}
    THEN [ret |-> AE_OK, eventLoop |-> el, finalized |-> << >>]
    ELSE [ret |-> AE_OK,
          eventLoop |->
            [el EXCEPT !.timeEventHead = RemoveAt(@, Least(TimerMatches(el, id)))],
          finalized |->
            IF el.timeEventHead[Least(TimerMatches(el, id))].finalizerProc
            THEN << id + 1 >> ELSE << >>]

\* mutant of aeDeleteTimeEvent: the finalizer is called and AE_OK returned
\* but the node stays in the list
aeDeleteTimeEvent_linked(el, id) ==
    IF TimerMatches(el, id) = {}
    THEN [ret |-> AE_ERR, eventLoop |-> el, finalized |-> << >>]
    ELSE [ret |-> AE_OK,
          eventLoop |-> el,
          finalized |->
            IF el.timeEventHead[Least(TimerMatches(el, id))].finalizerProc
            THEN << id + 1 >> ELSE << >>]

\* aeDeleteTimeEvent: the first node with this id is unlinked, its
\* finalizer, if it has one, called, and the node freed; AE_ERR when no node
\* has the id
aeDeleteTimeEvent(el, id) ==
    IF TimerMatches(el, id) = {}
    THEN [ret |-> AE_ERR, eventLoop |-> el, finalized |-> << >>]
    ELSE [ret |-> AE_OK,
          eventLoop |->
            [el EXCEPT !.timeEventHead = RemoveAt(@, Least(TimerMatches(el, id)))],
          finalized |->
            IF el.timeEventHead[Least(TimerMatches(el, id))].finalizerProc
            THEN << id + 1 >> ELSE << >>]

\* ------------------------------------------------------- aeProcessEvents
\* flags & bit
HasFlag(flags, bit) == BitAnd(flags, bit) # 0

RECURSIVE NearestFrom(_, _, _)
\* aeSearchNearestTimer's loop from place i on, nearest being the place of
\* the nearest timer so far (0 for NULL)
NearestFrom(list, i, nearest) ==
    IF i > Len(list) THEN nearest
    ELSE NearestFrom(list, i + 1,
            IF \/ nearest = 0
               \/ list[i].when_sec < list[nearest].when_sec
               \/ /\ list[i].when_sec = list[nearest].when_sec
                  /\ list[i].when_ms < list[nearest].when_ms
            THEN i ELSE nearest)

\* aeSearchNearestTimer: the place of the first timer to fire, 0 if none
aeSearchNearestTimer(el) == NearestFrom(el.timeEventHead, 1, 0)

\* mutant of SelectTimeout: tv_sec is not decremented when the milliseconds
\* are borrowed from it
SelectTimeout_noborrow(el, flags, c) ==
    IF /\ HasFlag(flags, AE_TIME_EVENTS)
       /\ ~HasFlag(flags, AE_DONT_WAIT)
       /\ aeSearchNearestTimer(el) # 0
    THEN LET shortest == el.timeEventHead[aeSearchNearestTimer(el)]
         IN  IF shortest.when_ms < aeGetTime(c).ms
             THEN [null |-> FALSE,
                   tv_sec |-> shortest.when_sec - aeGetTime(c).sec,
                   tv_usec |->
                     ((shortest.when_ms + 1000) - aeGetTime(c).ms) * 1000]
             ELSE [null |-> FALSE,
                   tv_sec |-> shortest.when_sec - aeGetTime(c).sec,
                   tv_usec |-> (shortest.when_ms - aeGetTime(c).ms) * 1000]
    ELSE IF HasFlag(flags, AE_DONT_WAIT)
    THEN [null |-> FALSE, tv_sec |-> 0, tv_usec |-> 0]
    ELSE [null |-> TRUE, tv_sec |-> 0, tv_usec |-> 0]

\* the timeout handed to select: the time missing for the nearest timer, a
\* zero timeout with AE_DONT_WAIT, and no timeout (NULL) otherwise
SelectTimeout(el, flags, c) ==
    IF /\ HasFlag(flags, AE_TIME_EVENTS)
       /\ ~HasFlag(flags, AE_DONT_WAIT)
       /\ aeSearchNearestTimer(el) # 0
    THEN LET shortest == el.timeEventHead[aeSearchNearestTimer(el)]
         IN  IF shortest.when_ms < aeGetTime(c).ms
             THEN [null |-> FALSE,
                   tv_sec |-> shortest.when_sec - aeGetTime(c).sec - 1,
                   tv_usec |->
                     ((shortest.when_ms + 1000) - aeGetTime(c).ms) * 1000]
             ELSE [null |-> FALSE,
                   tv_sec |-> shortest.when_sec - aeGetTime(c).sec,
                   tv_usec |-> (shortest.when_ms - aeGetTime(c).ms) * 1000]
    ELSE IF HasFlag(flags, AE_DONT_WAIT)
    THEN [null |-> FALSE, tv_sec |-> 0, tv_usec |-> 0]
    ELSE [null |-> TRUE, tv_sec |-> 0, tv_usec |-> 0]

\* the fds put by FD_SET into the set of one kind of interest
Interest(el, flags, bit) ==
    IF HasFlag(flags, AE_FILE_EVENTS)
    THEN { el.fileEventHead[i].fd :
             i \in { j \in 1..Len(el.fileEventHead) :
                       HasFlag(el.fileEventHead[j].mask, bit) } }
    ELSE {}

\* the time events phase: te = timeEventHead, maxId = timeEventNextId - 1;
\* without AE_TIME_EVENTS the pass returns
TimePhase(f, el) ==
    IF HasFlag(f.flags, AE_TIME_EVENTS)
    THEN [f EXCEPT !.pc = "timers",
                   !.te = ListHead(el.timeEventHead),
                   !.maxId = el.timeEventNextId - 1]
    ELSE [f EXCEPT !.pc = "return"]

\* aeProcessEvents up to the call of select: nothing to do without
\* AE_TIME_EVENTS and AE_FILE_EVENTS; select is called if there is a file
\* event or if time events are processed and the pass may wait
EnterPass(el, flags, c, main) ==
    IF ~HasFlag(flags, AE_TIME_EVENTS) /\ ~HasFlag(flags, AE_FILE_EVENTS)
    THEN [NoFrame EXCEPT !.pc = "return", !.main = main, !.flags = flags]
    ELSE IF \/ HasFlag(flags, AE_FILE_EVENTS) /\ el.fileEventHead # << >>
            \/ HasFlag(flags, AE_TIME_EVENTS) /\ ~HasFlag(flags, AE_DONT_WAIT)
    THEN [NoFrame EXCEPT !.pc = "select", !.main = main, !.flags = flags,
                         !.rfds = Interest(el, flags, AE_READABLE),
                         !.wfds = Interest(el, flags, AE_WRITABLE),
                         !.tvp = SelectTimeout(el, flags, c),
                         !.since = c]
    ELSE TimePhase([NoFrame EXCEPT !.main = main, !.flags = flags], el)

\* what select may return when the clock reads c: -1 for a timeout that is
\* not valid; some of the fds asked for, at any time; none of them once the
\* timeout has passed
SelectResults(f, c) ==
    IF ~f.tvp.null /\ (f.tvp.tv_sec < 0 \/ f.tvp.tv_usec < 0
                          \/ f.tvp.tv_usec >= 1000000)
    THEN {[retval |-> -1, rfds |-> f.rfds, wfds |-> f.wfds]}
    ELSE { r \in { [retval |-> Cardinality(rd) + Cardinality(wr),
                    rfds |-> rd, wfds |-> wr] :
                       rd \in SUBSET f.rfds, wr \in SUBSET f.wfds } :
             \/ r.retval > 0
             \/ /\ ~f.tvp.null
                /\ c >= f.since + f.tvp.tv_sec * 1000
                                + (f.tvp.tv_usec \div 1000) }

\* the test of the file events loop on node fe
FileReady(fe, f) ==
    \/ HasFlag(fe.mask, AE_READABLE) /\ fe.fd \in f.rfds
    \/ HasFlag(fe.mask, AE_WRITABLE) /\ fe.fd \in f.wfds

\* the mask passed to fileProc
ReadyMask(fe, f) ==
    (IF HasFlag(fe.mask, AE_READABLE) /\ fe.fd \in f.rfds
     THEN AE_READABLE ELSE 0)
    + (IF HasFlag(fe.mask, AE_WRITABLE) /\ fe.fd \in f.wfds
       THEN AE_WRITABLE ELSE 0)

\* mutant of FileProcReturned: processed is not incremented
FileProcReturned_nocount(f, el) ==
    [f EXCEPT !.pc = "files",
              !.fe = ListHead(el.fileEventHead),
              !.rfds = @ \ {f.fd},
              !.wfds = @ \ {f.fd}]

\* mutant of FileProcReturned: the loop goes on from the node it dispatched
FileProcReturned_stay(f, el) ==
    [f EXCEPT !.pc = "files",
              !.processed = @ + 1,
              !.rfds = @ \ {f.fd},
              !.wfds = @ \ {f.fd}]

\* mutant of FileProcReturned: the fd is cleared in wfds only
FileProcReturned_writeOnly(f, el) ==
    [f EXCEPT !.pc = "files",
              !.processed = @ + 1,
              !.fe = ListHead(el.fileEventHead),
              !.wfds = @ \ {f.fd}]

\* mutant of FileProcReturned: the fd is cleared in rfds only
FileProcReturned_readOnly(f, el) ==
    [f EXCEPT !.pc = "files",
              !.processed = @ + 1,
              !.fe = ListHead(el.fileEventHead),
              !.rfds = @ \ {f.fd}]

\* after fileProc has returned: processed++, fe = fileEventHead, FD_CLR
FileProcReturned(f, el) ==
    [f EXCEPT !.pc = "files",
              !.processed = @ + 1,
              !.fe = ListHead(el.fileEventHead),
              !.rfds = @ \ {f.fd},
              !.wfds = @ \ {f.fd}]

\* mutant of TimerSkipped: timers created after maxId was saved are not
\* skipped
TimerSkipped_none(te, f) == FALSE

\* te->id > maxId
TimerSkipped(te, f) == te.id > f.maxId

\* te->when_sec, te->when_ms = now + retval, te being in the list
Rescheduled(el, te, retval, c) ==
    [el EXCEPT
        !.timeEventHead[PlaceOf(el.timeEventHead, te)].when_sec =
            aeAddMillisecondsToNow(retval, c).sec,
        !.timeEventHead[PlaceOf(el.timeEventHead, te)].when_ms =
            aeAddMillisecondsToNow(retval, c).ms]

\* The same two stores when the callback has removed the timer: te points
\* to freed memory and the stores are undefined.  Either they hit nothing
\* the program looks at again, or the block has been handed out again for
\* one of the time events created since (reuse), whose fire time they
\* replace.
StrayStores(el, reuse, retval, c) ==
    {el} \cup { Rescheduled(el, id + 1, retval, c) :
                  id \in { i \in reuse : IsLinked(el.timeEventHead, i + 1) } }

\* mutant of OneShotRemoved: the timer whose callback returned AE_NOMORE
\* stays in the list
OneShotRemoved_kept(el, id) ==
    [ret |-> AE_OK, eventLoop |-> el, finalized |-> << >>]

\* retval == AE_NOMORE: aeDeleteTimeEvent(eventLoop, id)
OneShotRemoved(el, id) == aeDeleteTimeEvent(el, id)

\* mutant of MainContinues: aeMain does not look at the stop flag
MainContinues_always(el) == TRUE

\* aeMain's test: while (!eventLoop->stop)
MainContinues(el) == el.stop = 0

\* ------------------------------------------------- calls of the application
\* The application calls the library between two activations of
\* aeProcessEvents, and from the callbacks aeProcessEvents invokes.
InCallback == frame.pc \in {"fileProc", "timeProc"}
CanCall == frame.pc = "idle" \/ (InCallback /\ frame.calls < MaxCalls)
Charged(f) == IF f.pc = "idle" THEN f ELSE [f EXCEPT !.calls = @ + 1]

\* the finalizers called are counted in the log of the events created
Finalized(log, called) ==
    [i \in 1..Len(log) |->
        IF \E k \in 1..Len(called) : called[k] = i
        THEN [log[i] EXCEPT !.calls = @ + 1] ELSE log[i]]

\* the call itself, whoever makes it
CreateFileEvent(fd, mask, finalizerProc) ==
    /\ CanCall
    /\ eventLoop' = aeCreateFileEvent(eventLoop, fd, mask, finalizerProc,
                                      Len(fileLog) + 1)
    /\ fileLog' = Append(fileLog,
                         [finalizerProc |-> finalizerProc, calls |-> 0])
    /\ frame' = Charged(frame)
    /\ trace' = IF InCallback THEN [trace EXCEPT !.dirty = TRUE] ELSE trace
    /\ UNCHANGED <<sds, dictVars, iterVars, last, clock, timerLog>>

AeCreateFileEvent(fd, mask, finalizerProc) ==
    /\ Len(fileLog) < MaxFileEvents
    /\ CreateFileEvent(fd, mask, finalizerProc)

AeDeleteFileEvent(fd, mask) ==
    /\ CanCall
    /\ \E r \in {aeDeleteFileEvent(eventLoop, fd, mask)} :
          /\ eventLoop' = r.eventLoop
          /\ fileLog' = Finalized(fileLog, r.finalized)
          /\ trace' = IF InCallback /\ r.eventLoop # eventLoop
                      THEN [trace EXCEPT !.dirty = TRUE] ELSE trace
    /\ frame' = Charged(frame)
    /\ UNCHANGED <<sds, dictVars, iterVars, last, clock, timerLog>>

AeCreateTimeEvent(milliseconds, finalizerProc) ==
    /\ CanCall
    /\ eventLoop.timeEventNextId < MaxTimers
    /\ \E r \in {aeCreateTimeEvent(eventLoop, milliseconds, finalizerProc,
                                    clock)} :
          /\ eventLoop' = r.eventLoop
          /\ trace' = IF frame.pc = "timeProc"
                      THEN [trace EXCEPT !.born = @ \cup {r.ret}] ELSE trace
          /\ frame' =
                IF /\ frame.pc = "timeProc"
                   /\ ~IsLinked(eventLoop.timeEventHead, frame.te)
                THEN [Charged(frame) EXCEPT !.reuse = @ \cup {r.ret}]
                ELSE Charged(frame)
    /\ timerLog' = Append(timerLog,
                          [finalizerProc |-> finalizerProc, calls |-> 0,
                           nomore |-> FALSE])
    /\ UNCHANGED <<sds, dictVars, iterVars, last, clock, fileLog>>

AeDeleteTimeEvent(id) ==
    /\ CanCall
    /\ \E r \in {aeDeleteTimeEvent(eventLoop, id)} :
          /\ eventLoop' = r.eventLoop
          /\ timerLog' = Finalized(timerLog, r.finalized)
    /\ frame' = Charged(frame)
    /\ UNCHANGED <<sds, dictVars, iterVars, last, clock, fileLog, trace>>

\* aeStop: stop = 1
AeStop ==
    /\ CanCall
    /\ eventLoop' = [eventLoop EXCEPT !.stop = 1]
    /\ frame' = Charged(frame)
    /\ UNCHANGED <<sds, dictVars, iterVars, last, clock, fileLog, timerLog, trace>>

\* time passes: the next reading of the clock is 50 milliseconds later
Tick ==
    /\ clock + 50 \in ClockValues
    /\ clock' = clock + 50
    /\ UNCHANGED <<sds, dictVars, iterVars, last, eventLoop, frame, fileLog,
                   timerLog, trace>>

\* ---------------------------------------------- the steps of the dispatcher
\* the application calls aeProcessEvents(eventLoop, flags)
AeProcessEvents(flags) ==
    /\ frame.pc = "idle"
    /\ frame' = EnterPass(eventLoop, flags, clock, FALSE)
    /\ trace' = NoTrace
    /\ UNCHANGED <<sds, dictVars, iterVars, last, eventLoop, clock, fileLog,
                   timerLog>>

\* mutant of Select: the time events are processed first, whatever select
\* has returned
Select_timersFirst ==
    /\ frame.pc = "select"
    /\ \E r \in SelectResults(frame, clock) :
          /\ frame' = TimePhase([frame EXCEPT !.rfds = r.rfds,
                                              !.wfds = r.wfds], eventLoop)
          /\ trace' =
                [trace EXCEPT !.ready =
                    IF r.retval > 0
                    THEN { eventLoop.fileEventHead[i].addr :
                             i \in { j \in 1..Len(eventLoop.fileEventHead) :
                                       FileReady(eventLoop.fileEventHead[j],
                                                 r) } }
                    ELSE {}]
    /\ UNCHANGED <<sds, dictVars, iterVars, last, eventLoop, clock, fileLog,
                   timerLog>>

\* select returns; with retval > 0 the file events are walked from the head
Select ==
    /\ frame.pc = "select"
    /\ \E r \in SelectResults(frame, clock) :
          /\ frame' =
                IF r.retval > 0
                THEN [frame EXCEPT !.pc = "files",
                                   !.fe = ListHead(eventLoop.fileEventHead),
                                   !.rfds = r.rfds, !.wfds = r.wfds]
                ELSE TimePhase([frame EXCEPT !.rfds = r.rfds,
                                             !.wfds = r.wfds], eventLoop)
          /\ trace' =
                [trace EXCEPT !.ready =
                    IF r.retval > 0
                    THEN { eventLoop.fileEventHead[i].addr :
                             i \in { j \in 1..Len(eventLoop.fileEventHead) :
                                       FileReady(eventLoop.fileEventHead[j],
                                                 r) } }
                    ELSE {}]
    /\ UNCHANGED <<sds, dictVars, iterVars, last, eventLoop, clock, fileLog,
                   timerLog>>

\* the node fe points to
FileNode == eventLoop.fileEventHead[PlaceOf(eventLoop.fileEventHead, frame.fe)]
TimeNode == eventLoop.timeEventHead[PlaceOf(eventLoop.timeEventHead, frame.te)]

\* while (fe != NULL) is over
FileEventsDone ==
    /\ frame.pc = "files"
    /\ frame.fe = NULL
    /\ frame' = TimePhase(frame, eventLoop)
    /\ UNCHANGED <<sds, dictVars, iterVars, last, eventLoop, clock, fileLog,
                   timerLog, trace>>

\* fe is not ready: fe = fe->next
FileEventNext ==
    /\ frame.pc = "files"
    /\ frame.fe # NULL
    /\ ~FileReady(FileNode, frame)
    /\ frame' = [frame EXCEPT !.fe = NextOf(eventLoop.fileEventHead, frame.fe)]
    /\ UNCHANGED <<sds, dictVars, iterVars, last, eventLoop, clock, fileLog,
                   timerLog, trace>>

\* fe is ready: fe->fileProc(eventLoop, fe->fd, fe->clientData, mask)
FileProcCall ==
    /\ frame.pc = "files"
    /\ frame.fe # NULL
    /\ FileReady(FileNode, frame)
    /\ frame' = [frame EXCEPT !.pc = "fileProc", !.fd = FileNode.fd,
                              !.calls = 0]
    /\ trace' = [trace EXCEPT !.files =
                    Append(@, [addr |-> frame.fe, fd |-> FileNode.fd,
                               mask |-> ReadyMask(FileNode, frame)])]
    /\ UNCHANGED <<sds, dictVars, iterVars, last, eventLoop, clock, fileLog,
                   timerLog>>

\* fileProc returns
FileProcReturn ==
    /\ frame.pc = "fileProc"
    /\ frame' = FileProcReturned(frame, eventLoop)
    /\ UNCHANGED <<sds, dictVars, iterVars, last, eventLoop, clock, fileLog,
                   timerLog, trace>>

\* while (te) is over: the pass returns
TimeEventsDone ==
    /\ frame.pc = "timers"
    /\ frame.te = NULL
    /\ frame' = [frame EXCEPT !.pc = "return"]
    /\ UNCHANGED <<sds, dictVars, iterVars, last, eventLoop, clock, fileLog,
                   timerLog, trace>>

\* te was created after maxId was saved, or its time has not come:
\* te = te->next
TimeEventNext ==
    /\ frame.pc = "timers"
    /\ frame.te # NULL
    /\ TimerSkipped(TimeNode, frame) \/ ~TimerDue(TimeNode, clock)
    /\ frame' = [frame EXCEPT !.te = NextOf(eventLoop.timeEventHead, frame.te)]
    /\ UNCHANGED <<sds, dictVars, iterVars, last, eventLoop, clock, fileLog,
                   timerLog, trace>>

\* te is due: id = te->id; retval = te->timeProc(eventLoop, id, clientData)
TimeProcCall ==
    /\ frame.pc = "timers"
    /\ frame.te # NULL
    /\ ~TimerSkipped(TimeNode, frame)
    /\ TimerDue(TimeNode, clock)
    /\ frame' = [frame EXCEPT !.pc = "timeProc", !.id = TimeNode.id,
                              !.calls = 0, !.reuse = {}]
    /\ trace' = [trace EXCEPT !.timers = IF @ < MaxFirings THEN @ + 1 ELSE @]
    /\ UNCHANGED <<sds, dictVars, iterVars, last, eventLoop, clock, fileLog,
                   timerLog>>

\* timeProc returns retval: the timer is given a new fire time, or removed
\* if retval is AE_NOMORE, and the walk starts again from the head
TimeProcReturn(retval) ==
    /\ frame.pc = "timeProc"
    /\ IF retval # AE_NOMORE
       THEN /\ eventLoop' \in
                  (IF IsLinked(eventLoop.timeEventHead, frame.te)
                   THEN {Rescheduled(eventLoop, frame.te, retval, clock)}
                   ELSE StrayStores(eventLoop, frame.reuse, retval, clock))
            /\ timerLog' = timerLog
       ELSE \E r \in {OneShotRemoved(eventLoop, frame.id)} :
                /\ eventLoop' = r.eventLoop
                /\ timerLog' = [Finalized(timerLog, r.finalized)
                                   EXCEPT ![frame.id + 1].nomore = TRUE]
    /\ frame' = [frame EXCEPT !.pc = "timers",
                              !.te = ListHead(eventLoop'.timeEventHead),
                              !.reuse = {}]
    /\ UNCHANGED <<sds, dictVars, iterVars, last, clock, fileLog, trace>>

\* return processed: the value returned is frame.processed
AeProcessEventsReturn ==
    /\ frame.pc = "return"
    /\ frame' = IF frame.main
                THEN [NoFrame EXCEPT !.pc = "main", !.main = TRUE]
                ELSE NoFrame
    /\ trace' = NoTrace
    /\ UNCHANGED <<sds, dictVars, iterVars, last, eventLoop, clock, fileLog,
                   timerLog>>

\* the application calls aeMain: stop = 0
AeMain ==
    /\ frame.pc = "idle"
    /\ eventLoop' = [eventLoop EXCEPT !.stop = 0]
    /\ frame' = [NoFrame EXCEPT !.pc = "main", !.main = TRUE]
    /\ UNCHANGED <<sds, dictVars, iterVars, last, clock, fileLog, timerLog, trace>>

\* while (!eventLoop->stop) aeProcessEvents(eventLoop, AE_ALL_EVENTS)
AeMainPass ==
    /\ frame.pc = "main"
    /\ MainContinues(eventLoop)
    /\ frame' = EnterPass(eventLoop, AE_ALL_EVENTS, clock, TRUE)
    /\ UNCHANGED <<sds, dictVars, iterVars, last, eventLoop, clock, fileLog,
                   timerLog, trace>>

\* the stop flag is set: aeMain returns
AeMainReturn ==
    /\ frame.pc = "main"
    /\ ~MainContinues(eventLoop)
    /\ frame' = NoFrame
    /\ last' = Called("aeMain", AE_OK)
    /\ UNCHANGED <<sds, dictVars, iterVars, eventLoop, clock, fileLog, timerLog,
                   trace>>

\* the steps of the loop over the file events, entered when select has
\* reported ready fds
FileSteps ==
    \/ FileEventsDone
    \/ FileEventNext
    \/ FileProcCall
    \/ FileProcReturn

\* the steps of the loop over the time events, entered when flags has
\* AE_TIME_EVENTS
TimeSteps ==
    \/ TimeEventsDone
    \/ TimeEventNext
    \/ TimeProcCall
    \/ \E retval \in Retvals : TimeProcReturn(retval)

\* the steps of aeProcessEvents after select has returned, the returns of
\* the callbacks included
Running == FileSteps \/ TimeSteps \/ AeProcessEventsReturn

\* the steps of aeProcessEvents
Dispatch == Select \/ Running

\* Both kinds of events, every call of the library made between passes and
\* by callbacks; the file events are all registered for reading fd 1, the
\* passes do not wait, the time events are created due and the clock
\* stands still.
NextAe ==
    \/ \E fin \in BOOLEAN : AeCreateFileEvent(1, AE_READABLE, fin)
    \/ AeDeleteFileEvent(1, AE_READABLE)
    \/ \E fin \in BOOLEAN : AeCreateTimeEvent(0, fin)
    \/ \E id \in 0..(MaxTimers - 1) : AeDeleteTimeEvent(id)
    \/ AeProcessEvents(AE_ALL_EVENTS + AE_DONT_WAIT)
    \/ Dispatch

SpecAe == Init /\ [][NextAe]_vars

\* Time events only: created, deleted and dispatched while the clock
\* advances, the callbacks creating and deleting time events too.  With no
\* file event select reports no fd and the loop over the file events is
\* not entered.
NextTimers ==
    \/ \E ms \in Delays, fin \in BOOLEAN : AeCreateTimeEvent(ms, fin)
    \/ \E id \in 0..(MaxTimers - 1) : AeDeleteTimeEvent(id)
    \/ \E flags \in {AE_TIME_EVENTS, AE_TIME_EVENTS + AE_DONT_WAIT} :
          AeProcessEvents(flags)
    \/ Tick
    \/ Select
    \/ TimeSteps
    \/ AeProcessEventsReturn

SpecTimers == Init /\ [][NextTimers]_vars

\* File events only: registered, removed and dispatched, the callbacks
\* registering and removing file events too.  flags never has
\* AE_TIME_EVENTS, so the loop over the time events is not entered.
NextFiles ==
    \/ \E fd \in Fds, mask \in Masks, fin \in BOOLEAN :
          AeCreateFileEvent(fd, mask, fin)
    \/ \E fd \in Fds, mask \in Masks : AeDeleteFileEvent(fd, mask)
    \/ \E flags \in {0, AE_FILE_EVENTS, AE_FILE_EVENTS + AE_DONT_WAIT} :
          AeProcessEvents(flags)
    \/ Select
    \/ FileSteps
    \/ AeProcessEventsReturn

SpecFiles == Init /\ [][NextFiles]_vars

\* Callbacks that register: the application creates file events for reading
\* while no pass runs, and the file-event callbacks of a pass create up to
\* MaxSpawned more, on either fd.
NextSpawn ==
    \/ /\ frame.pc = "idle"
       /\ \E fd \in Fds : AeCreateFileEvent(fd, AE_READABLE, FALSE)
    \/ /\ frame.pc = "fileProc"
       /\ Len(fileLog) < MaxFileEvents + MaxSpawned
       /\ \E fd \in Fds : CreateFileEvent(fd, AE_READABLE, FALSE)
    \/ AeProcessEvents(AE_FILE_EVENTS + AE_DONT_WAIT)
    \/ Select
    \/ FileSteps
    \/ AeProcessEventsReturn

SpecSpawn == Init /\ [][NextSpawn]_vars

\* The clock: time events with long delays are created and rescheduled by
\* their callbacks, which take time; no time event is deleted by the
\* application.  With no file event and AE_DONT_WAIT select is not called.
NextClock ==
    \/ \E ms \in LongDelays : AeCreateTimeEvent(ms, FALSE)
    \/ AeProcessEvents(AE_TIME_EVENTS + AE_DONT_WAIT)
    \/ Tick
    \/ TimeSteps
    \/ AeProcessEventsReturn

SpecClock == Init /\ [][NextClock]_vars

\* aeMain: the application creates file events for reading on fd 1 and time
\* events, then calls aeMain, which runs passes until a callback calls
\* aeStop; once aeMain has returned the application calls aeProcessEvents
\* itself.  The clock advances between calls and while select waits.  The
\* program goes on executing aeProcessEvents and aeMain, and every callback
\* returns; whether select ever returns is up to the fds and the clock.
NextMain ==
    \/ /\ frame.pc = "idle"
       /\ last.op # "aeMain"
       /\ \/ AeCreateFileEvent(1, AE_READABLE, FALSE)
          \/ \E ms \in Delays : AeCreateTimeEvent(ms, FALSE)
          \/ AeMain
    \/ InCallback /\ AeStop
    \/ AeMainPass
    \/ AeMainReturn
    \/ last.op = "aeMain" /\ AeProcessEvents(AE_ALL_EVENTS + AE_DONT_WAIT)
    \/ frame.pc \in {"idle", "select"} /\ Tick
    \/ Dispatch

SpecMain ==
    Init /\ [][NextMain]_vars /\ WF_vars(Running) /\ WF_vars(AeMainReturn)

\* Periodic timers with no delay: time events are created between passes,
\* their callbacks return 0 or AE_NOMORE, and the clock advances at any
\* moment.  The loop over the time events goes on executing and every
\* callback returns.
NextZero ==
    \/ /\ frame.pc = "idle"
       /\ \E ms \in Delays : AeCreateTimeEvent(ms, FALSE)
    \/ AeProcessEvents(AE_TIME_EVENTS + AE_DONT_WAIT)
    \/ Tick
    \/ TimeEventsDone
    \/ TimeEventNext
    \/ TimeProcCall
    \/ \E retval \in ZeroRetvals : TimeProcReturn(retval)
    \/ AeProcessEventsReturn

ZeroSteps ==
    \/ TimeEventsDone
    \/ TimeEventNext
    \/ TimeProcCall
    \/ \E retval \in ZeroRetvals : TimeProcReturn(retval)

SpecZero == Init /\ [][NextZero]_vars /\ WF_vars(ZeroSteps)

\* Periodic timers under aeMain: the application creates time events that
\* are due at once and calls aeMain; no callback stops the loop, removes a
\* timer or returns AE_NOMORE, every callback asks for a positive delay, and
\* the clock advances at any moment once aeMain runs.
NextStarve ==
    \/ /\ frame.pc = "idle"
       /\ \/ AeCreateTimeEvent(0, FALSE)
          \/ AeMain
    \/ AeMainPass
    \/ frame.pc # "idle" /\ Tick
    \/ Select
    \/ TimeEventsDone
    \/ TimeEventNext
    \/ TimeProcCall
    \/ \E retval \in Retvals \ {AE_NOMORE} : TimeProcReturn(retval)
    \/ AeProcessEventsReturn

SpecStarve == Init /\ [][NextStarve]_vars

\* The wait: file events for reading fd 1 and time events are created
\* between passes, the passes are called with every combination of flags,
\* the clock advances between passes and while select waits, and the
\* callbacks make no call of their own.
NextWait ==
    \/ /\ frame.pc = "idle"
       /\ \/ AeCreateFileEvent(1, AE_READABLE, FALSE)
          \/ \E ms \in WaitDelays : AeCreateTimeEvent(ms, FALSE)
    \/ \E flags \in PassFlags : AeProcessEvents(flags)
    \/ frame.pc \in {"idle", "select"} /\ Tick
    \/ Dispatch

SpecWait == Init /\ [][NextWait]_vars

\* ------------------------------------------------------ the dynamic string
\* The bytes of the strings are 97 ("a") and 32 (" ").  A string s is its
\* header (len, free), the number alloc of bytes of buf before the byte of
\* the terminator, and the len bytes it holds.
SdsTexts == { << >>, <<97>>, <<32, 97>>, <<97, 32, 32>> }
\* the character sets passed to sdstrim
SdsCsets == { {32}, {32, 97} }

\* sdsnewlen(init, initlen): a block of initlen + 1 bytes, free = 0
sdsnewlen(init) ==
    [len |-> Len(init), free |-> 0, alloc |-> Len(init), buf |-> init,
     overrun |-> FALSE]

\* sdsMakeRoomFor(s, addlen): nothing if free >= addlen, otherwise a block
\* of newlen = (len + addlen) * 2 bytes and the terminator, free = newlen - len
sdsMakeRoomFor(s, addlen) ==
    IF s.free >= addlen THEN s
    ELSE [s EXCEPT !.alloc = (s.len + addlen) * 2,
                   !.free = (s.len + addlen) * 2 - s.len]

\* sdscatlen once room has been made: the bytes of t after the curlen bytes
\* of s, len = curlen + len, free = free - len
Catenated(s, sh, t) ==
    [sh EXCEPT !.buf = s.buf \o t,
               !.len = s.len + Len(t),
               !.free = sh.free - Len(t),
               !.overrun = s.len + Len(t) > sh.alloc]

sdscatlen(s, t) == Catenated(s, sdsMakeRoomFor(s, Len(t)), t)

\* sdscpylen once sh is the header after the test on totlen: memcpy of len
\* bytes and the terminator, len = len, free = totlen - len.  The bytes that
\* do not fit the block are written past it.
Copied(sh, t) ==
    [sh EXCEPT !.buf = t,
               !.len = Len(t),
               !.free = (sh.free + sh.len) - Len(t),
               !.overrun = Len(t) > sh.alloc]

\* sdscpylen(s, t, len): if totlen = free + len of s is less than len, room
\* is asked for len - totlen more bytes
sdscpylen(s, t) ==
    IF s.free + s.len < Len(t)
    THEN Copied(sdsMakeRoomFor(s, Len(t) - (s.free + s.len)), t)
    ELSE Copied(s, t)

\* sdstrim(s, cset): sp goes forward from the start and ep backward from the
\* end over the bytes that are in cset (ep stops at the start); the bytes
\* sp .. ep are moved to the front
sdstrim(s, cset) ==
    LET sp == Least({ i \in 1..(s.len + 1) :
                        i = s.len + 1 \/ s.buf[i] \notin cset })
        ep == IF s.len = 0 THEN 0
              ELSE -Least({ -j : j \in { k \in 1..s.len :
                                           k = 1 \/ s.buf[k] \notin cset } })
        len == IF sp > ep THEN 0 ELSE (ep - sp) + 1
    IN  [s EXCEPT !.buf = SubSeq(s.buf, sp, sp + len - 1),
                  !.free = s.free + (s.len - len),
                  !.len = len]

\* sdsrange(s, start, end): negative indexes count from the end, indexes
\* past the end are brought back to it, the bytes start .. end are kept
sdsrange(s, start, end) ==
    LET st0 == IF start < 0
               THEN (IF s.len + start < 0 THEN 0 ELSE s.len + start)
               ELSE start
        en0 == IF end < 0
               THEN (IF s.len + end < 0 THEN 0 ELSE s.len + end)
               ELSE end
        st1 == IF st0 > en0 THEN 0
               ELSE IF st0 >= s.len THEN s.len - 1 ELSE st0
        en1 == IF en0 >= s.len THEN s.len - 1 ELSE en0
        newlen == IF st0 > en0 THEN 0
                  ELSE IF st1 > en1 THEN 0 ELSE (en1 - st1) + 1
    IN  IF s.len = 0 THEN s
        ELSE [s EXCEPT !.buf = SubSeq(s.buf, st1 + 1, st1 + newlen),
                       !.free = s.free + (s.len - newlen),
                       !.len = newlen]

\* The application creates a string and then works on it; once bytes have
\* been written past the block of the string nothing more is said of it.
SdsNewLen(init) ==
    /\ sds = NoSds
    /\ sds' = sdsnewlen(init)
    /\ UNCHANGED <<dictVars, last, iterVars, aeVars>>

SdsLive == sds # NoSds /\ ~sds.overrun

SdsCatLen(t) ==
    /\ SdsLive
    /\ sds.len + Len(t) <= MaxSdsLen
    /\ sds' = sdscatlen(sds, t)
    /\ UNCHANGED <<dictVars, last, iterVars, aeVars>>

SdsCpyLen(t) ==
    /\ SdsLive
    /\ sds' = sdscpylen(sds, t)
    /\ UNCHANGED <<dictVars, last, iterVars, aeVars>>

SdsTrim(cset) ==
    /\ SdsLive
    /\ sds' = sdstrim(sds, cset)
    /\ UNCHANGED <<dictVars, last, iterVars, aeVars>>

SdsRange(start, end) ==
    /\ SdsLive
    /\ sds' = sdsrange(sds, start, end)
    /\ UNCHANGED <<dictVars, last, iterVars, aeVars>>

NextSds ==
    \/ \E init \in SdsTexts : SdsNewLen(init)
    \/ \E t \in SdsTexts : SdsCatLen(t)
    \/ \E t \in SdsTexts : SdsCpyLen(t)
    \/ \E cset \in SdsCsets : SdsTrim(cset)
    \/ \E start, end \in (-MaxSdsLen)..MaxSdsLen : SdsRange(start, end)

SpecSds == Init /\ [][NextSds]_vars

\* ------------------------------------------------------------ properties
\* What the properties below speak of, stated on the heap itself and not
\* through the table's own search.
RECURSIVE ChainLen(_, _)
ChainLen(he, m) == IF he = NULL THEN 0 ELSE 1 + ChainLen(m[he].next, m)

RECURSIVE CountFrom(_, _, _)
\* the number of entries on the chains of buckets i .. size-1
CountFrom(i, d, m) ==
    IF i >= d.size THEN 0 ELSE ChainLen(d.table[i], m) + CountFrom(i + 1, d, m)

IsPowerOfTwo(n) == n \in { 2 ^ k : k \in 0..10 }

\* the least power of two that is >= n
LeastPowerOfTwo(n) ==
    CHOOSE p \in { 2 ^ k : k \in 0..10 } :
        p >= n /\ \A q \in { 2 ^ k : k \in 0..10 } : q >= n => p <= q

AllKeys == Keys \cup GrowKeys

\* the key/value pairs held by the entries on the chains
EntrySet(d, m) == { <<m[e].key, m[e].val>> : e \in TableEntries(d, m) }

\* some entry on the chains holds key
Present(d, m, key) == \E e \in TableEntries(d, m) : m[e].key = key

\* what dictFind gives for key: the value of the entry found, or "none"
Lookup(d, m, key) ==
    IF dictFind(d, m, key) = NULL THEN "none" ELSE m[dictFind(d, m, key)].val

\* C1: after any sequence of operations `used` is the number of entries on
\* the bucket chains, `size` is 0 or a power of two >= 4 with
\* sizemask = size - 1, and every entry is on the chain of bucket
\* hash(key) mod size.
C1_TableWellFormed ==
    /\ ht.used = CountFrom(0, ht, mem)
    /\ \/ ht.size = 0 /\ ht.sizemask = 0
       \/ ht.size >= DICT_HT_INITIAL_SIZE /\ IsPowerOfTwo(ht.size)
          /\ ht.sizemask = ht.size - 1
    /\ DOMAIN ht.table = 0..(ht.size - 1)
    /\ \A i \in DOMAIN ht.table :
           \A e \in ChainEntries(ht.table[i], mem) :
               dictHashKey(mem[e].key) % ht.size = i

\* a rehashed 8-slot table in which two keys still share a bucket
C1_Witness ==
    /\ ht.size = 8
    /\ ht.used >= 3
    /\ \E i \in DOMAIN ht.table : ChainLen(ht.table[i], mem) >= 2

\* C2 as stated: dictAdd of a key that is present returns DICT_ERR and leaves
\* the table (size, sizemask, used, bucket chains) and the entries unchanged.
C2_AddExistingChangesNothing ==
    [][ \A key \in Keys, val \in Vals :
          (last'.op = "dictAdd" /\ Present(ht, mem, key) /\ DictAdd(key, val))
          => (last'.ret = DICT_ERR /\ ht' = ht /\ mem' = mem) ]_vars

\* C2 as amended: dictAdd of a key that is present returns DICT_ERR and
\* leaves used, the set of entries and every value unchanged; size, sizemask
\* and the chains are unchanged too when used # size, and when used = size
\* the table has been doubled by the call.
C2_AddExistingKeepsEntries ==
    [][ \A key \in Keys, val \in Vals :
          (last'.op = "dictAdd" /\ Present(ht, mem, key) /\ DictAdd(key, val))
          => /\ last'.ret = DICT_ERR
             /\ ht'.used = ht.used
             /\ TableEntries(ht', mem') = TableEntries(ht, mem)
             /\ EntrySet(ht', mem') = EntrySet(ht, mem)
             /\ (ht.used # ht.size => ht' = ht /\ mem' = mem)
             /\ (ht.used = ht.size =>
                    ht'.size = 2 * ht.size /\ ht'.sizemask = ht'.size - 1) ]_vars

\* a failed dictAdd on a table that was full: it now has 8 slots
C2_Witness ==
    /\ last = Called("dictAdd", DICT_ERR)
    /\ ht.used = 4
    /\ ht.size = 8

\* C3: between operations used <= size, and the chains hold no more entries
\* than there are buckets.
C3_UsedAtMostSize ==
    /\ ht.used <= ht.size
    /\ Cardinality(TableEntries(ht, mem)) <= ht.size

\* the insertion into a full 4-slot table has doubled it
C3_Witness ==
    /\ last = Called("dictAdd", DICT_OK)
    /\ ht.used = 5
    /\ ht.size = 8

\* C4: dictReplace of a key that is present returns DICT_OK, leaves exactly
\* one entry for the key, holding the new value, calls the value destructor
\* once, on the previous value, and changes neither used nor another entry.
C4_ReplaceExisting ==
    [][ \A key \in Keys, val \in Vals :
          (last'.op = "dictReplace" /\ Present(ht, mem, key)
             /\ DictReplace(key, val))
          => /\ last'.ret = DICT_OK
             /\ Cardinality({ e \in TableEntries(ht', mem') :
                                  mem'[e].key = key }) = 1
             /\ \A e \in TableEntries(ht', mem') :
                    mem'[e].key = key => mem'[e].val = val
             /\ \E old \in Vals :
                    /\ <<key, old>> \in EntrySet(ht, mem)
                    /\ freed' = << <<"val", old>> >>
             /\ ht'.used = ht.used
             /\ { p \in EntrySet(ht', mem') : p[1] # key }
                    = { p \in EntrySet(ht, mem) : p[1] # key } ]_vars

\* a dictReplace that destroyed an old value, in a table with other entries
C4_Witness ==
    /\ last = Called("dictReplace", DICT_OK)
    /\ Len(freed) = 1
    /\ ht.used >= 2

\* C5: after a successful dictExpand every key is found by dictFind with the
\* value it had, a key that was absent is still absent, and used is the same.
C5_ExpandKeepsContent ==
    [][ \A size \in 0..MaxExpand :
          (last' = Called("dictExpand", DICT_OK) /\ DictExpand(size))
          => /\ \A key \in AllKeys :
                    Lookup(ht', mem', key) = Lookup(ht, mem, key)
             /\ EntrySet(ht', mem') = EntrySet(ht, mem)
             /\ ht'.used = ht.used ]_vars

\* a successful dictExpand of a table holding several entries
C5_Witness ==
    /\ last = Called("dictExpand", DICT_OK)
    /\ ht.used >= 3

\* C6: dictExpand(ht, n) fails exactly when n < used, n being the size asked
\* for before rounding, and a failed call changes nothing.
C6_ExpandFailsBelowUsed ==
    [][ \A size \in 0..MaxExpand :
          (last'.op = "dictExpand" /\ DictExpand(size))
          => /\ (last'.ret = DICT_ERR <=> size < ht.used)
             /\ (last'.ret = DICT_ERR => ht' = ht /\ mem' = mem) ]_vars

\* dictExpand has failed on 3 entries in 4 slots: the size asked for was
\* below 3, and rounds up to 4
C6_Witness ==
    /\ last = Called("dictExpand", DICT_ERR)
    /\ ht.used = 3
    /\ ht.size = 4

\* C7: after n >= 1 insertions of distinct keys into a fresh table, and
\* nothing else, used = n and size is the least power of two >= max(n, 4).
C7_GrowthBySuccessfulAdds ==
    ht.used >= 1
    => /\ ht.used = Cardinality(DOMAIN mem)
       /\ ht.used = CountFrom(0, ht, mem)
       /\ ht.size = LeastPowerOfTwo(IF ht.used > DICT_HT_INITIAL_SIZE
                                    THEN ht.used ELSE DICT_HT_INITIAL_SIZE)

\* five keys inserted: 8 slots
C7_Witness == ht.used = 5 /\ ht.size = 8

\* C8: an iterator advanced to the end, the caller deleting none or some of
\* the entries right after they are returned, returns no entry twice, returns
\* only entries that were present at its creation, and has returned every one
\* of them when dictNext returns NULL.
C8_IterationExactlyOnce ==
    /\ \A i, j \in 1..Len(yielded) : i # j => yielded[i] # yielded[j]
    /\ \A i \in 1..Len(yielded) : yielded[i] \in snapshot
    /\ IterDone => { yielded[i] : i \in 1..Len(yielded) } = snapshot

\* the iteration of a 4-slot table of four entries, three of them on one
\* chain, has ended with every entry deleted on the way
C8_Witness ==
    /\ IterDone
    /\ Len(yielded) = 4
    /\ ht.size = 4
    /\ ht.used = 0

\* C9: dictDelete and dictDeleteNoFree of a key that is not present return
\* DICT_ERR, call no destructor and change nothing.
C9_DeleteAbsent ==
    [][ \A key \in Keys :
          (/\ last'.op \in {"dictDelete", "dictDeleteNoFree"}
           /\ ~Present(ht, mem, key)
           /\ (DictDelete(key) \/ DictDeleteNoFree(key)))
          => /\ last'.ret = DICT_ERR
             /\ freed' = << >>
             /\ ht' = ht
             /\ mem' = mem ]_vars

\* a failed dictDelete on a table that was never grown
C9_Witness ==
    /\ last = Called("dictDelete", DICT_ERR)
    /\ ht.size = 0

\* C10: dictDelete of a key that is present returns DICT_OK; afterwards
\* dictFind fails for the key, used is one less, size is the same and every
\* other key is found with its previous value.
C10_DeletePresent ==
    [][ \A key \in Keys :
          (last'.op = "dictDelete" /\ Present(ht, mem, key) /\ DictDelete(key))
          => /\ last'.ret = DICT_OK
             /\ dictFind(ht', mem', key) = NULL
             /\ ht'.used = ht.used - 1
             /\ ht'.size = ht.size
             /\ \A other \in Keys \ {key} :
                    Lookup(ht', mem', other) = Lookup(ht, mem, other)
             /\ EntrySet(ht', mem')
                    = { p \in EntrySet(ht, mem) : p[1] # key } ]_vars

\* a dictDelete that removed one entry of several
C10_Witness ==
    /\ last = Called("dictDelete", DICT_OK)
    /\ Len(freed) = 2
    /\ ht.used >= 2

\* C11: dictResize never fails; afterwards size is the least power of two
\* >= max(used, 4), so a sparse table shrinks and a minimal one keeps its
\* size, and every key keeps its value.
C11_ResizeToFit ==
    [][ (last'.op = "dictResize" /\ DictResize)
        => /\ last'.ret = DICT_OK
           /\ ht'.size = LeastPowerOfTwo(IF ht.used < 4 THEN 4 ELSE ht.used)
           /\ (ht.size = LeastPowerOfTwo(IF ht.used < 4 THEN 4 ELSE ht.used)
                  => ht'.size = ht.size)
           /\ ht'.used = ht.used
           /\ EntrySet(ht', mem') = EntrySet(ht, mem)
           /\ \A key \in AllKeys :
                  Lookup(ht', mem', key) = Lookup(ht, mem, key) ]_vars

\* dictResize has returned on a table of several entries that fits in the
\* initial size
C11_Witness ==
    /\ last = Called("dictResize", DICT_OK)
    /\ ht.used >= 2
    /\ ht.size = 4

\* ------------------------------------------------ properties of the event loop
\* the file event created with clientData a, the time event id, is in its list
FileLinked(a) == IsLinked(eventLoop.fileEventHead, a)
TimerLinked(id) == IsLinked(eventLoop.timeEventHead, id + 1)
\* a fire time in milliseconds
WhenMs(te) == te.when_sec * 1000 + te.when_ms

\* C12: over any sequence of calls and dispatch passes, the finalizer of a
\* file event or time event has been called exactly once if the event has a
\* finalizer and has been removed (by aeDeleteFileEvent, aeDeleteTimeEvent or
\* the dispatcher after AE_NOMORE), and never otherwise.
C12_FinalizerExactlyAtRemoval ==
    /\ \A a \in 1..Len(fileLog) :
          fileLog[a].calls =
              IF fileLog[a].finalizerProc /\ ~FileLinked(a) THEN 1 ELSE 0
    /\ \A i \in 1..Len(timerLog) :
          timerLog[i].calls =
              IF timerLog[i].finalizerProc /\ ~TimerLinked(i - 1) THEN 1 ELSE 0

\* a file event was removed, a time event was removed by aeDeleteTimeEvent
\* and another by the dispatcher, each with its finalizer called
C12_Witness ==
    /\ \E a \in 1..Len(fileLog) : fileLog[a].calls = 1
    /\ \E i \in 1..Len(timerLog) :
          timerLog[i].calls = 1 /\ timerLog[i].nomore
    /\ \E i \in 1..Len(timerLog) :
          timerLog[i].calls = 1 /\ ~timerLog[i].nomore

\* C13: once the callback of a time event has returned AE_NOMORE the timer
\* is out of the list (removed in the step that took the return value), its
\* callback is not invoked again, its finalizer, if any, has been called
\* exactly once, and aeDeleteTimeEvent on its id returns AE_ERR.
C13_OneShotRemoved ==
    \A i \in 1..Len(timerLog) :
        timerLog[i].nomore
        => /\ ~TimerLinked(i - 1)
           /\ ~(frame.pc = "timeProc" /\ frame.id = i - 1)
           /\ timerLog[i].calls = IF timerLog[i].finalizerProc THEN 1 ELSE 0
           /\ aeDeleteTimeEvent(eventLoop, i - 1).ret = AE_ERR

\* a timer with a finalizer has returned AE_NOMORE and the pass goes on
C13_Witness ==
    /\ frame.pc = "timers"
    /\ \E i \in 1..Len(timerLog) :
          timerLog[i].nomore /\ timerLog[i].finalizerProc
    /\ eventLoop.timeEventHead # << >>

\* C14: a time event created by a callback during the time events walk of
\* a pass does not have its callback invoked in that pass.
C14_NoFireInPassOfCreation ==
    frame.pc = "timeProc" => frame.id \notin trace.born

\* the walk is at a timer created during the walk, which is already due
C14_Witness ==
    /\ frame.pc = "timers"
    /\ frame.te # NULL
    /\ TimeNode.id \in trace.born
    /\ TimerDue(TimeNode, clock)

\* C15: the value aeProcessEvents returns is the number of callbacks it has
\* invoked in the pass, those of time events as well as those of file
\* events.
C15_ReturnCountsCallbacks ==
    frame.pc = "return"
    => frame.processed = Len(trace.files) + trace.timers

C17_FileLoopToleratesChange ==
    /\ frame.pc = "files" => (frame.fe = NULL \/ FileLinked(frame.fe))
    /\ frame.pc = "return"
          => \A i \in 1..Len(eventLoop.fileEventHead) :
                 ~FileReady(eventLoop.fileEventHead[i], frame)

\* the callback just dispatched has removed its own registration, and
\* another registration is still reported ready
C17_Witness ==
    /\ frame.pc = "files"
    /\ trace.files # << >>
    /\ ~FileLinked(trace.files[Len(trace.files)].addr)
    /\ \E i \in 1..Len(eventLoop.fileEventHead) :
          FileReady(eventLoop.fileEventHead[i], frame)

\* C18: when a time-event callback returns a delay, the timer aeProcessEvents
\* then stores the new fire time into is still in the list, whatever timers
\* the callback has removed.
C18_NoStoreToRemovedTimer ==
    [][ \A retval \in Retvals \ {AE_NOMORE} :
          (frame.pc = "timeProc" /\ TimeProcReturn(retval))
          => IsLinked(eventLoop.timeEventHead, frame.te) ]_vars

C19_StopEndsMainAfterPass ==
    /\ [][ (frame.pc = "main" /\ eventLoop.stop # 0)
            => frame'.pc \in {"main", "idle"} ]_vars
    /\ []( (frame.pc = "return" /\ frame.main /\ eventLoop.stop # 0)
           => /\ \A a \in trace.ready :
                    FileLinked(a)
                    => \E k \in 1..Len(trace.files) :
                          trace.files[k].fd =
                            eventLoop.fileEventHead[
                                PlaceOf(eventLoop.fileEventHead, a)].fd
              /\ \A i \in 1..Len(eventLoop.timeEventHead) :
                    eventLoop.timeEventHead[i].id <= frame.maxId
                    => ~TimerDue(eventLoop.timeEventHead[i], clock) )
    /\ []( \A flags \in PassFlags :
             EnterPass(eventLoop, flags, clock, FALSE)
             = EnterPass([eventLoop EXCEPT !.stop = 0], flags, clock, FALSE) )
    /\ ( (frame.main /\ eventLoop.stop # 0)
         ~> (frame.pc = "idle" /\ last = Called("aeMain", AE_OK)) )

\* under aeMain the stop flag was set by an earlier callback of the pass,
\* and the callback of a due timer is being invoked all the same
C19_Witness ==
    /\ frame.main
    /\ eventLoop.stop = 1
    /\ frame.pc = "timeProc"
    /\ frame.calls = 0

\* C21: a successful aeDeleteTimeEvent(id), between passes or from a callback,
\* leaves no timer with that id in the list; a timer that has left the list
\* never comes back; and no callback is invoked for a timer that is not in
\* the list.  So the callback of a removed timer is not invoked again in
\* the current pass or in a later one, however late the clock.
C21_DeletedTimerNeverFires ==
    /\ [][ \A id \in 0..MaxTimers :
             (AeDeleteTimeEvent(id) /\ aeDeleteTimeEvent(eventLoop, id).ret = AE_OK)
             => ~IsLinked(eventLoop'.timeEventHead, id + 1) ]_vars
    /\ [][ \A id \in 0..MaxTimers :
             (id < eventLoop.timeEventNextId /\ ~TimerLinked(id))
             => /\ ~IsLinked(eventLoop'.timeEventHead, id + 1)
                /\ ~(frame.pc = "timers" /\ frame'.pc = "timeProc"
                       /\ frame'.id = id) ]_vars

\* a timer was removed by aeDeleteTimeEvent, the clock has advanced, and a
\* pass is invoking its second callback, that of the other timer again
C21_Witness ==
    /\ frame.pc = "timeProc"
    /\ frame.calls = 0
    /\ trace.timers = 2
    /\ clock = 1000
    /\ \E i \in 1..Len(timerLog) :
          /\ ~TimerLinked(i - 1)
          /\ ~timerLog[i].nomore
          /\ i - 1 # frame.id

\* C22: the ids aeCreateTimeEvent returns are 0, 1, 2, ... in the order of
\* the creations: the id returned is the number of timers created before,
\* and only a creation moves the counter.  The timers in the list have
\* pairwise distinct ids, all below the counter, so the id of a removed timer
\* is not given to a later one.
C22_TimerIdsIncrease ==
    /\ []( /\ eventLoop.timeEventNextId = Len(timerLog)
           /\ \A i, j \in 1..Len(eventLoop.timeEventHead) :
                 i # j => eventLoop.timeEventHead[i].id
                          # eventLoop.timeEventHead[j].id
           /\ \A i \in 1..Len(eventLoop.timeEventHead) :
                 /\ eventLoop.timeEventHead[i].id >= 0
                 /\ eventLoop.timeEventHead[i].id < eventLoop.timeEventNextId )
    /\ [][ IF Len(timerLog') = Len(timerLog) + 1
           THEN /\ eventLoop'.timeEventHead[1].id = eventLoop.timeEventNextId
                /\ eventLoop'.timeEventNextId = eventLoop.timeEventNextId + 1
                /\ \A ms \in Delays, fin \in BOOLEAN :
                      aeCreateTimeEvent(eventLoop, ms, fin, clock).ret
                      = Len(timerLog)
           ELSE eventLoop'.timeEventNextId = eventLoop.timeEventNextId ]_vars

\* timer 0 has been removed and timer 1 created after that: it is alone in
\* the list
C22_Witness ==
    /\ eventLoop.timeEventNextId = 2
    /\ Len(eventLoop.timeEventHead) = 1
    /\ eventLoop.timeEventHead[1].id = 1
    /\ timerLog[1].calls = 1

\* C23: a call aeDeleteFileEvent(fd, mask) that finds a registration with
\* this fd and this mask takes the one nearest the head out of the list,
\* the others staying in their order, and calls the finalizer of that one,
\* if it has one, once and no other finalizer; a call that finds none
\* changes neither the list nor the finalizer calls.
C23_DeleteFileEventFrame ==
    [][ \A fd \in Fds, mask \in Masks :
          AeDeleteFileEvent(fd, mask)
          => IF \E k \in 1..Len(eventLoop.fileEventHead) :
                   /\ eventLoop.fileEventHead[k].fd = fd
                   /\ eventLoop.fileEventHead[k].mask = mask
             THEN \E k \in 1..Len(eventLoop.fileEventHead) :
                     /\ eventLoop.fileEventHead[k].fd = fd
                     /\ eventLoop.fileEventHead[k].mask = mask
                     /\ \A j \in 1..(k - 1) :
                           ~(/\ eventLoop.fileEventHead[j].fd = fd
                             /\ eventLoop.fileEventHead[j].mask = mask)
                     /\ Len(eventLoop'.fileEventHead)
                        = Len(eventLoop.fileEventHead) - 1
                     /\ \A j \in 1..Len(eventLoop'.fileEventHead) :
                           eventLoop'.fileEventHead[j] =
                             eventLoop.fileEventHead[IF j < k THEN j ELSE j + 1]
                     /\ \A a \in 1..Len(fileLog) :
                           fileLog'[a].calls =
                             IF /\ a = eventLoop.fileEventHead[k].addr
                                /\ eventLoop.fileEventHead[k].finalizerProc
                             THEN fileLog[a].calls + 1
                             ELSE fileLog[a].calls
             ELSE /\ eventLoop'.fileEventHead = eventLoop.fileEventHead
                  /\ fileLog' = fileLog ]_vars

\* the later of two registrations was removed and its finalizer called, the
\* earlier one is still in the list
C23_Witness ==
    /\ Len(fileLog) = 2
    /\ fileLog[2].calls = 1
    /\ FileLinked(1)
    /\ ~FileLinked(2)

\* the registrations of the list that share their fd and differ in their
\* mask, as pairs of places, the first nearer the head
SameFdPairs ==
    { p \in (1..Len(eventLoop.fileEventHead)) \X (1..Len(eventLoop.fileEventHead)) :
        /\ p[1] < p[2]
        /\ eventLoop.fileEventHead[p[1]].fd = eventLoop.fileEventHead[p[2]].fd
        /\ eventLoop.fileEventHead[p[1]].mask # eventLoop.fileEventHead[p[2]].mask }

\* C24 as claimed: when two registrations on one fd with different masks are
\* both reported ready in a pass whose callbacks leave the list alone, each
\* has had its callback invoked, with its own ready mask, when the pass
\* returns.
C24_BothSameFdDispatched ==
    (frame.pc = "return" /\ ~trace.dirty)
    => \A p \in SameFdPairs :
          ( /\ eventLoop.fileEventHead[p[1]].addr \in trace.ready
            /\ eventLoop.fileEventHead[p[2]].addr \in trace.ready )
          => \A q \in {p[1], p[2]} :
                \E k \in 1..Len(trace.files) :
                    /\ trace.files[k].addr = eventLoop.fileEventHead[q].addr
                    /\ trace.files[k].mask = eventLoop.fileEventHead[q].mask

\* C24 amended: aeCreateFileEvent puts a new node at the head and leaves the
\* nodes of the list as they are, same fd or not; aeDeleteFileEvent(fd, mask)
\* leaves the nodes with another mask in the list; and when two registrations
\* on one fd with different masks are both reported ready in a pass whose
\* callbacks leave the list alone, the one farther from the head is not
\* invoked in that pass, and the ready registration on that fd nearest the
\* head has been invoked once, with its own mask, when the pass returns.
C24_SameFdNearestHeadOnly ==
    /\ [][ /\ \A fd \in Fds, mask \in Masks, fin \in BOOLEAN :
                AeCreateFileEvent(fd, mask, fin)
                => /\ Len(eventLoop'.fileEventHead)
                      = Len(eventLoop.fileEventHead) + 1
                   /\ eventLoop'.fileEventHead[1].fd = fd
                   /\ eventLoop'.fileEventHead[1].mask = mask
                   /\ \A i \in 1..Len(eventLoop.fileEventHead) :
                         eventLoop'.fileEventHead[i + 1]
                         = eventLoop.fileEventHead[i]
           /\ \A fd \in Fds, mask \in Masks :
                AeDeleteFileEvent(fd, mask)
                => \A i \in 1..Len(eventLoop.fileEventHead) :
                      eventLoop.fileEventHead[i].mask # mask
                      => IsLinked(eventLoop'.fileEventHead,
                                  eventLoop.fileEventHead[i].addr) ]_vars
    /\ []( ~trace.dirty
           => \A p \in SameFdPairs :
                ( /\ eventLoop.fileEventHead[p[1]].addr \in trace.ready
                  /\ eventLoop.fileEventHead[p[2]].addr \in trace.ready )
                => /\ \A k \in 1..Len(trace.files) :
                         trace.files[k].addr # eventLoop.fileEventHead[p[2]].addr
                   /\ frame.pc = "return"
                      => \E n \in 1..p[1] :
                            /\ eventLoop.fileEventHead[n].fd
                               = eventLoop.fileEventHead[p[1]].fd
                            /\ eventLoop.fileEventHead[n].addr \in trace.ready
                            /\ \A j \in 1..(n - 1) :
                                  ~(/\ eventLoop.fileEventHead[j].fd
                                       = eventLoop.fileEventHead[n].fd
                                    /\ eventLoop.fileEventHead[j].addr
                                       \in trace.ready)
                            /\ Cardinality(
                                  { k \in 1..Len(trace.files) :
                                      trace.files[k].fd
                                      = eventLoop.fileEventHead[n].fd }) = 1
                            /\ \A k \in 1..Len(trace.files) :
                                  trace.files[k].fd
                                  = eventLoop.fileEventHead[n].fd
                                  => /\ trace.files[k].addr
                                        = eventLoop.fileEventHead[n].addr
                                     /\ trace.files[k].mask
                                        = eventLoop.fileEventHead[n].mask )

\* fd 1 is registered for reading and for writing, both were reported ready,
\* and the pass returns after one callback
C24_Witness ==
    /\ frame.pc = "return"
    /\ ~trace.dirty
    /\ Len(trace.files) = 1
    /\ \E p \in SameFdPairs :
          /\ eventLoop.fileEventHead[p[1]].addr \in trace.ready
          /\ eventLoop.fileEventHead[p[2]].addr \in trace.ready

\* the earliest fire time of the timers in the list, in milliseconds
NearestFireTime ==
    Least({ WhenMs(eventLoop.timeEventHead[i]) :
              i \in 1..Len(eventLoop.timeEventHead) })

\* C25: while a pass is in select, (1) with AE_DONT_WAIT the timeout is
\* zero, and select was only called because there is a file event; (2)
\* without it, in a pass that processes time events with a timer in the
\* list, the timeout is the nearest fire time minus the clock read at the
\* call, with 0 <= tv_usec < 1000000; (3) there is no timeout (the wait has
\* no end of its own) only without AE_DONT_WAIT and, if time events are
\* processed, with no timer; (4) a wait with a timeout can end, with no fd
\* ready, as soon as the clock has reached the nearest fire time.
C25_WaitBoundedByNearestTimer ==
    frame.pc = "select"
    => /\ HasFlag(frame.flags, AE_DONT_WAIT)
          => /\ frame.tvp = [null |-> FALSE, tv_sec |-> 0, tv_usec |-> 0]
             /\ eventLoop.fileEventHead # << >>
             /\ \E r \in SelectResults(frame, frame.since) : r.retval = 0
       /\ ( /\ ~HasFlag(frame.flags, AE_DONT_WAIT)
            /\ HasFlag(frame.flags, AE_TIME_EVENTS)
            /\ eventLoop.timeEventHead # << >> )
          => /\ ~frame.tvp.null
             /\ frame.tvp.tv_usec >= 0
             /\ frame.tvp.tv_usec < 1000000
             /\ frame.tvp.tv_sec * 1000 + (frame.tvp.tv_usec \div 1000)
                = NearestFireTime - frame.since
             /\ clock >= NearestFireTime
                => \E r \in SelectResults(frame, clock) : r.retval <= 0
       /\ frame.tvp.null
          => /\ ~HasFlag(frame.flags, AE_DONT_WAIT)
             /\ HasFlag(frame.flags, AE_TIME_EVENTS)
                => eventLoop.timeEventHead = << >>

\* a pass without AE_DONT_WAIT waits with two timers in the list, the one
\* at the head firing later than the other, and 50 milliseconds remain
\* until the nearest fire time
C25_Witness ==
    /\ frame.pc = "select"
    /\ ~HasFlag(frame.flags, AE_DONT_WAIT)
    /\ Len(eventLoop.timeEventHead) = 2
    /\ WhenMs(eventLoop.timeEventHead[1]) > WhenMs(eventLoop.timeEventHead[2])
    /\ frame.tvp.tv_sec = 0
    /\ frame.tvp.tv_usec = 50000

\* C26: for an id no timer in the list has (never handed out, or of a timer
\* removed since), aeDeleteTimeEvent returns AE_ERR, calls no finalizer and
\* leaves the list and the id counter as they are; the call made by the
\* application changes nothing of the loop.
C26_DeleteAbsentTimerFails ==
    /\ []( \A id \in (-1)..MaxTimers :
             (\A i \in 1..Len(eventLoop.timeEventHead) :
                 eventLoop.timeEventHead[i].id # id)
             => /\ aeDeleteTimeEvent(eventLoop, id).ret = AE_ERR
                /\ aeDeleteTimeEvent(eventLoop, id).finalized = << >>
                /\ aeDeleteTimeEvent(eventLoop, id).eventLoop = eventLoop )
    /\ [][ \A id \in 0..MaxTimers :
             (AeDeleteTimeEvent(id) /\ ~TimerLinked(id))
             => /\ eventLoop' = eventLoop
                /\ timerLog' = timerLog ]_vars

\* a callback has made its one call, the only timer created is still in the
\* list and no other was created: the call was aeDeleteTimeEvent on an id
\* no timer has
C26_Witness ==
    /\ frame.pc = "timeProc"
    /\ frame.calls = 1
    /\ eventLoop.timeEventNextId = 1
    /\ Len(eventLoop.timeEventHead) = 1
    /\ timerLog[1].finalizerProc

\* the buckets of the table that hold an entry, and the values of random()
\* that end the search for one
NonEmptyBuckets == { b \in DOMAIN ht.table : ht.table[b] # NULL }
AcceptedDraws ==
    { r \in RandomValues : BitAnd(r, ht.sizemask) \in NonEmptyBuckets }

\* C27: dictGetRandomKey returns NULL on a table with no entry and, whatever
\* random() returns, an entry of the table otherwise.  Counting the values
\* of random(), each as likely as the other: every non-empty bucket is
\* picked by the same number of values of the first draw, whatever the
\* length of its chain; within the bucket picked every entry is returned for
\* some value of the second draw, and the numbers of values that return two
\* entries of the chain differ by one at most (the remainder of the range of
\* random() by the length of the chain).
C27_RandomKeyBucketUniform ==
    /\ ht.used = 0
          => \A r1, r2 \in RandomValues :
                dictGetRandomKey(ht, mem, r1, r2) = NULL
    /\ ht.used > 0
          => /\ AcceptedDraws # {}
             /\ \A r1 \in AcceptedDraws, r2 \in RandomValues :
                   dictGetRandomKey(ht, mem, r1, r2)
                   \in ChainEntries(ht.table[BitAnd(r1, ht.sizemask)], mem)
             /\ \A b1, b2 \in NonEmptyBuckets :
                   Cardinality({ r1 \in AcceptedDraws :
                       dictGetRandomKey(ht, mem, r1, 0)
                       \in ChainEntries(ht.table[b1], mem) })
                   = Cardinality({ r1 \in AcceptedDraws :
                       dictGetRandomKey(ht, mem, r1, 0)
                       \in ChainEntries(ht.table[b2], mem) })
             /\ \A b \in NonEmptyBuckets :
                   \A e1, e2 \in ChainEntries(ht.table[b], mem) :
                      /\ \E r2 \in RandomValues :
                            dictGetRandomKey(ht, mem, b, r2) = e1
                      /\ Cardinality({ r2 \in RandomValues :
                               dictGetRandomKey(ht, mem, b, r2) = e1 })
                         <= Cardinality({ r2 \in RandomValues :
                               dictGetRandomKey(ht, mem, b, r2) = e2 }) + 1
    /\ last.op = "dictGetRandomKey"
          => IF ht.used = 0 THEN last.ret = NULL
             ELSE last.ret \in TableEntries(ht, mem)

\* a random entry was returned from a table of four slots with three
\* entries on one chain and one on another
C27_Witness ==
    /\ last.op = "dictGetRandomKey"
    /\ ht.size = 4
    /\ \E b1, b2 \in NonEmptyBuckets :
          /\ ChainLen(ht.table[b1], mem) = 3
          /\ ChainLen(ht.table[b2], mem) = 1
          /\ last.ret \in ChainEntries(ht.table[b2], mem)

\* C28: a step that invokes the callback of a time event is made by a pass
\* whose flags have AE_TIME_EVENTS, for a timer of the list whose fire time
\* is not after the clock at that step; passes without AE_TIME_EVENTS never
\* enter the walk of the time events.
C28_NoTimerFiresEarly ==
    /\ [][ (frame.pc # "timeProc" /\ frame'.pc = "timeProc")
           => /\ HasFlag(frame.flags, AE_TIME_EVENTS)
              /\ \E i \in 1..Len(eventLoop.timeEventHead) :
                    /\ eventLoop.timeEventHead[i].id = frame'.id
                    /\ WhenMs(eventLoop.timeEventHead[i]) <= clock ]_vars
    /\ []( frame.pc \in {"timers", "timeProc"}
           => HasFlag(frame.flags, AE_TIME_EVENTS) )

\* a pass has invoked the callback of one timer and now stands at another
\* whose fire time is still ahead
C28_Witness ==
    /\ frame.pc = "timers"
    /\ frame.te # NULL
    /\ trace.timers = 1
    /\ WhenMs(TimeNode) > clock
    /\ ~TimerSkipped(TimeNode, frame)

C30_OneCallbackPerFd ==
    /\ \A k, l \in 1..Len(trace.files) :
          k # l => trace.files[k].fd # trace.files[l].fd
    /\ frame.pc \in {"files", "timers", "return"}
          => \A k \in 1..Len(trace.files) :
                trace.files[k].fd \notin (frame.rfds \cup frame.wfds)

\* the callback invoked for a registration has added another one with the
\* same fd and mask, and the pass returns after that one callback
C30_Witness ==
    /\ frame.pc = "return"
    /\ trace.dirty
    /\ trace.ready = {1}
    /\ Len(trace.files) = 1
    /\ Len(eventLoop.fileEventHead) = 2
    /\ eventLoop.fileEventHead[1].addr = 2
    /\ eventLoop.fileEventHead[1].fd = eventLoop.fileEventHead[2].fd
    /\ eventLoop.fileEventHead[1].mask = eventLoop.fileEventHead[2].mask

\* C31: a file event registered by a callback of a dispatch pass never has its
\* own callback invoked in that pass, whatever its fd.  trace.ready holds the
\* registrations select reported ready, all of them linked before the first
\* callback of the pass; a registration dispatched without being in it was
\* linked by one of the pass's callbacks.
C31_SpawnedNotDispatched ==
    \A k \in 1..Len(trace.files) : trace.files[k].addr \in trace.ready

\* C32: with entries inserted between the advances of an iterator, also when
\* an insertion expands and rehashes the table, every entry that was in the
\* table when the iterator was created has been returned exactly once when
\* dictNext returns NULL.
C32_SnapshotOnceUnderInsertion ==
    IterDone
    => \A a \in snapshot :
          Cardinality({ k \in 1..Len(yielded) : yielded[k] = a }) = 1

\* C33: whichever entries the caller deletes between the advances of an
\* iterator, dictNext never returns an entry that has been freed (to return
\* it dictNext has read its next field, so it has followed its link too).
C33_NoFreedEntryIterated ==
    (last.op = "dictNext" /\ last.ret # NULL) => last.ret \in DOMAIN mem

\* C34: dictDelete calls the key destructor and the value destructor once
\* each, on the key and value of the entry it removes and on nothing else;
\* dictDeleteNoFree removes the entry and calls neither; emptying the table
\* calls both once for every entry it held and leaves size 0 and used 0.
C34_DestructorsExactlyOnce ==
    [][ /\ \A key \in Keys :
              /\ (last'.op = "dictDelete" /\ DictDelete(key))
                    => freed' = IF Present(ht, mem, key)
                                THEN << <<"key", key>>,
                                        <<"val", Lookup(ht, mem, key)>> >>
                                ELSE << >>
              /\ (last'.op = "dictDeleteNoFree" /\ DictDeleteNoFree(key))
                    => /\ freed' = << >>
                       /\ Present(ht, mem, key)
                             => /\ ~Present(ht', mem', key)
                                /\ ht'.used = ht.used - 1
        /\ last'.op = "dictEmpty"
              => /\ ht'.size = 0
                 /\ ht'.used = 0
                 /\ Len(freed') = 2 * Cardinality(TableEntries(ht, mem))
                 /\ \A key \in Keys :
                        Cardinality({ k \in 1..Len(freed') :
                                        freed'[k] = <<"key", key>> })
                          = Cardinality({ e \in TableEntries(ht, mem) :
                                            mem[e].key = key })
                 /\ \A val \in Vals :
                        Cardinality({ k \in 1..Len(freed') :
                                        freed'[k] = <<"val", val>> })
                          = Cardinality({ e \in TableEntries(ht, mem) :
                                            mem[e].val = val }) ]_vars

\* a table of three entries, two of them with the same value, has been
\* emptied
C34_Witness ==
    /\ last = Called("dictEmpty", DICT_OK)
    /\ Len(freed) = 6
    /\ Cardinality({ k \in 1..Len(freed) : freed[k][1] = "val" }) = 3
    /\ { freed[k][2] : k \in { j \in 1..Len(freed) : freed[j][1] = "val" } }
          = Vals

\* C35: after any sequence of dictAdd, dictReplace, dictDelete, dictExpand and
\* dictResize no two entries on the chains have keys that compare equal.
C35_KeysUnique ==
    \A e1, e2 \in TableEntries(ht, mem) :
        dictCompareHashKeys(mem[e1].key, mem[e2].key) => e1 = e2

\* an insertion has been refused for a key found behind the head of its chain
\* in a table of eight buckets
C35_Witness ==
    /\ last = Called("dictAdd", DICT_ERR)
    /\ ht.size = 8
    /\ \E key \in Keys :
          /\ Present(ht, mem, key)
          /\ ht.table[BucketOf(key, ht.sizemask)] # dictFind(ht, mem, key)

\* C36: a pass that does not wait in select ends when its callbacks return:
\* the loop over the time events, once entered, reaches return, whatever
\* non-negative delays the callbacks return and however the clock advances.
C36_PassTerminates ==
    (frame.pc \in {"timers", "timeProc"}) ~> (frame.pc = "return")

\* the time events of SpecStarve whose callback has not been invoked yet:
\* their fire time is still the time of their creation, before aeMain, and
\* their callback is not the one running
Unfired ==
    { i \in 1..Len(eventLoop.timeEventHead) :
        /\ WhenMs(eventLoop.timeEventHead[i]) = Least(ClockValues)
        /\ ~(frame.pc = "timeProc"
               /\ frame.id = eventLoop.timeEventHead[i].id) }

C38_TimeoutNotNegative ==
    ( /\ frame.pc = "select"
      /\ HasFlag(frame.flags, AE_TIME_EVENTS)
      /\ ~HasFlag(frame.flags, AE_DONT_WAIT)
      /\ eventLoop.timeEventHead # << >> )
    => /\ ~frame.tvp.null
       /\ frame.tvp.tv_sec >= 0
       /\ frame.tvp.tv_usec >= 0
       /\ frame.tvp.tv_usec < 1000000
       /\ \A r \in SelectResults(frame, clock) : r.retval >= 0

\* C39: on every table the program can reach, whichever expansion is asked
\* for (dictExpand with any size, dictResize, the expansion of dictAdd), the
\* assertion ht->used == 0 after the migration loop holds, and the new table
\* has on its chains exactly the entries the old one had, used counting
\* them.
C39_ExpandAssertHolds ==
    \A r \in { dictExpand(ht, mem, size) : size \in 0..MaxExpand }
              \cup {dictResize(ht, mem), _dictExpandIfNeeded(ht, mem)} :
        /\ r.assert
        /\ TableEntries(r.ht, r.mem) = TableEntries(ht, mem)
        /\ r.ht.used = Cardinality(TableEntries(ht, mem))

\* dictExpand has migrated four entries into a table of eight buckets, two
\* of them onto the same chain
C39_Witness ==
    /\ last = Called("dictExpand", DICT_OK)
    /\ ht.size = 8
    /\ ht.used = 4
    /\ \E i \in DOMAIN ht.table : ChainLen(ht.table[i], mem) = 2

\* C40: after any sequence of sdsnewlen, sdscatlen, sdscpylen, sdstrim and
\* sdsrange the header of the string has len >= 0, free >= 0 and len + free
\* equal to the bytes of its buffer before the terminator; in particular
\* sdscpylen with more bytes than len + free has enlarged the buffer to hold
\* them before it copies.
C40_HeaderMatchesBuffer ==
    sds # NoSds
    => /\ sds.len >= 0
       /\ sds.free >= 0
       /\ sds.len + sds.free = sds.alloc
       /\ ~sds.overrun

====
